---- MODULE Spec2Model ----
(***************************************************************************)
(* A model of generate_stubs.py, the type-stub synthesizer of hifitime.     *)
(*                                                                         *)
(* Strings are sequences of one-character strings, so that tokenizing,     *)
(* joining and splitting are computed character by character as the code   *)
(* computes them.                                                          *)
(***************************************************************************)
EXTENDS Integers, Sequences, FiniteSets, TLC

VARIABLES
    type_str,         \* SpecParse: the pieces of hint text written so far
    types_to_import,  \* the shared set of required import paths
    before,           \* history: types_to_import as it was when the call began
    phase,            \* position of the specification that is running
    parsed,           \* SpecParse: what parse_type_to_ast returned or raised
    callable,         \* SpecFn: the reflected callable function_stub is given
    stub,             \* SpecFn: what function_stub did
    run               \* SpecModule: the invocation of the program

vars == <<type_str, types_to_import, before, phase, parsed, callable, stub, run>>

(***************************************************************************)
(* Bounds                                                                  *)
(***************************************************************************)
\* The number of text pieces a type hint is written with.
MaxHint == 5

\* The number of lines a documentation string is written with.
MaxLines == 2

\* The number of members, of the module and of its classes together, a
\* reflected module is made of.
MaxMembers == 3

(***************************************************************************)
(* Text                                                                    *)
(***************************************************************************)
LowerCase ==
    {"a","b","c","d","e","f","g","h","i","j","k","l","m",
     "n","o","p","q","r","s","t","u","v","w","x","y","z"}

UpperCase ==
    {"A","B","C","D","E","F","G","H","I","J","K","L","M",
     "N","O","P","Q","R","S","T","U","V","W","X","Y","Z"}

\* "".join(parts) for a sequence of strings
RECURSIVE Join(_)
Join(parts) ==
    IF parts = <<>> THEN <<>> ELSE Head(parts) \o Join(Tail(parts))

\* sep.join(parts) for a one-character separator
RECURSIVE JoinWith(_, _)
JoinWith(parts, sep) ==
    IF parts = <<>> THEN <<>>
    ELSE IF Len(parts) = 1 THEN parts[1]
    ELSE parts[1] \o <<sep>> \o JoinWith(Tail(parts), sep)

\* path.split(sep): never empty, "" gives [""]
RECURSIVE SplitAcc(_, _, _, _)
SplitAcc(s, sep, done, cur) ==
    IF s = <<>> THEN Append(done, cur)
    ELSE IF Head(s) = sep THEN SplitAcc(Tail(s), sep, Append(done, cur), <<>>)
    ELSE SplitAcc(Tail(s), sep, done, Append(cur, Head(s)))

Split(s, sep) == SplitAcc(s, sep, <<>>, <<>>)

\* type_str.strip(): the hint texts hold no whitespace but the blank
RECURSIVE LStrip(_)
LStrip(s) ==
    IF s # <<>> /\ Head(s) = " " THEN LStrip(Tail(s)) ELSE s

RECURSIVE RStrip(_)
RStrip(s) ==
    IF s # <<>> /\ s[Len(s)] = " " THEN RStrip(SubSeq(s, 1, Len(s) - 1)) ELSE s

Strip(s) == RStrip(LStrip(s))

(***************************************************************************)
(* Names                                                                   *)
(***************************************************************************)
IntName == <<"i", "n", "t">>

TypingName == <<"t", "y", "p", "i", "n", "g">>

ListName == <<"L", "i", "s", "t">>

AnyName == <<"A", "n", "y">>

BoolName == <<"b", "o", "o", "l">>

BytesName == <<"b", "y", "t", "e", "s">>

StrName == <<"s", "t", "r">>

NoneName == <<"N", "o", "n", "e">>

SelfName == <<"s", "e", "l", "f">>

ErrorName == <<"E", "r", "r", "o", "r">>

Dunder(s) == <<"_", "_">> \o s \o <<"_", "_">>

InitName == Dunder(<<"i", "n", "i", "t">>)

\* s.startswith(prefix)
StartsWith(s, prefix) ==
    Len(s) >= Len(prefix) /\ SubSeq(s, 1, Len(prefix)) = prefix

\* s.endswith(suffix)
EndsWith(s, suffix) ==
    Len(s) >= Len(suffix) /\ SubSeq(s, Len(s) - Len(suffix) + 1, Len(s)) = suffix

\* sub in s
Contains(s, sub) ==
    \E i \in 1..(Len(s) - Len(sub) + 1) : SubSeq(s, i, i + Len(sub) - 1) = sub

(***************************************************************************)
(* Errors and syntax trees                                                 *)
(***************************************************************************)
\* An exception: its Python type, which raise statement it is, and the
\* element path its message holds (<<>> when the message holds none).
\* An ErrorInName that takes every name to hold "Error".
ErrorInName_always(name) == TRUE

\* The mutant of ErrorInName that finds no name to hold "Error".
ErrorInName_never(name) == FALSE

\* "Error" in element_path[1], "Error" in cls_name
ErrorInName(name) == Contains(name, ErrorName)

Err(type, reason, path) == [type |-> type, reason |-> reason, path |-> path]

NoErr == Err("", "", <<>>)

\* The exceptions of parse_sequence: "Not able to parse type '{type_str}'
\* used by {path} ({reason})". The message holds the hint as written.
NotAbleToParse(err, hint) ==
    [type |-> err.type, reason |-> err.reason, path |-> err.path,
     type_str |-> hint]

NoAst == [node |-> "None"]

\* The one value of a set of one value: binds a result that is used more
\* than once.
Only(S) == CHOOSE x \in S : TRUE

Name(id) == [node |-> "Name", id |-> id]

Attribute(value, attr) == [node |-> "Attribute", value |-> value, attr |-> attr]

Subscript(value, slice) == [node |-> "Subscript", value |-> value, slice |-> slice]

BinOp(left, right) == [node |-> "BinOp", left |-> left, right |-> right]

RECURSIVE PathFold(_, _)
PathFold(base, rest) ==
    IF rest = <<>> THEN base
    ELSE PathFold(Attribute(base, Head(rest)), Tail(rest))

path_to_type(elements) == PathFold(Name(elements[1]), Tail(elements))

\* What a parsing function hands back: the tree or the exception, and the
\* import set as the call left it.
Ok(ast, imports) == [err |-> NoErr, ast |-> ast, imports |-> imports]

Raise(err, imports) == [err |-> err, ast |-> NoAst, imports |-> imports]

Failed(r) == r.err # NoErr

(***************************************************************************)
(* parse_type_to_ast                                                       *)
(***************************************************************************)
IsTokenChar(c) == c \in LowerCase \/ c \in UpperCase \/ c = "."

\* The tokenizing loop: tokens and current_token after the characters s.
RECURSIVE TokenLoop(_, _, _)
TokenLoop(s, tokens, current_token) ==
    IF s = <<>> THEN
        IF current_token # <<>> THEN Append(tokens, current_token) ELSE tokens
    ELSE
        LET c == Head(s) IN
        IF IsTokenChar(c) THEN TokenLoop(Tail(s), tokens, Append(current_token, c))
        ELSE
            LET flushed == IF current_token # <<>>
                           THEN Append(tokens, current_token) ELSE tokens
                pushed  == IF c # " " THEN Append(flushed, <<c>>) ELSE flushed
            IN  TokenLoop(Tail(s), pushed, <<>>)

Tokenize(s) == TokenLoop(s, <<>>, <<>>)

\* An item of a nested token list: a token, or a list of items.
Str(tok) == [isStr |-> TRUE, tok |-> tok, items |-> <<>>]

List(items) == [isStr |-> FALSE, tok |-> <<>>, items |-> items]

\* The list reached from the root list by the child indexes of path.
RECURSIVE ListAt(_, _)
ListAt(root, path) ==
    IF path = <<>> THEN root ELSE ListAt(root[Head(path)].items, Tail(path))

\* The root list after list.append(item) on the list at path. The lists on
\* the stack are the very objects held by their parents, so an append to the
\* top of the stack shows in the root.
RECURSIVE AppendAt(_, _, _)
AppendAt(root, path, item) ==
    IF path = <<>> THEN Append(root, item)
    ELSE [root EXCEPT ![Head(path)] =
              List(AppendAt(root[Head(path)].items, Tail(path), item))]

\* The bracket loop. stack holds, for each open list, its path from the
\* root list; stack[-1] or stack.pop() on an empty stack is an IndexError.
RECURSIVE BracketLoop(_, _, _)
BracketLoop(tokens, root, stack) ==
    IF tokens = <<>> THEN [root |-> root, stack |-> stack, err |-> NoErr]
    ELSE IF stack = <<>> THEN
        [root |-> root, stack |-> stack, err |-> Err("IndexError", "stack", <<>>)]
    ELSE
        LET token == Head(tokens)
            top   == stack[Len(stack)]
        IN  IF token = <<"[">> THEN
                LET grown == AppendAt(root, top, List(<<>>))
                    child == Append(top, Len(ListAt(grown, top)))
                IN  BracketLoop(Tail(tokens), grown, Append(stack, child))
            ELSE IF token = <<"]">> THEN
                BracketLoop(Tail(tokens), root, SubSeq(stack, 1, Len(stack) - 1))
            ELSE
                BracketLoop(Tail(tokens), AppendAt(root, top, Str(token)), stack)

Brackets(tokens) == BracketLoop(tokens, <<>>, << <<>> >>)

OrToken == <<"o", "r">>

\* or_groups after the splitting loop of parse_sequence
\* A splitter that opens a group only when it has something to hold, as
\* str.split() without a separator does: empty alternatives vanish.
RECURSIVE OrGroups_skipping(_, _)
OrGroups_skipping(sequence, or_groups) ==
    IF sequence = <<>> THEN SelectSeq(or_groups, LAMBDA g : g # <<>>)
    ELSE
        LET e == Head(sequence) IN
        IF e.isStr /\ e.tok = OrToken
        THEN OrGroups_skipping(Tail(sequence), Append(or_groups, <<>>))
        ELSE OrGroups_skipping(Tail(sequence),
                               [or_groups EXCEPT ![Len(or_groups)] = Append(@, e)])

RECURSIVE OrGroups(_, _)
OrGroups(sequence, or_groups) ==
    IF sequence = <<>> THEN or_groups
    ELSE
        LET e == Head(sequence) IN
        IF e.isStr /\ e.tok = OrToken
        THEN OrGroups(Tail(sequence), Append(or_groups, <<>>))
        ELSE OrGroups(Tail(sequence),
                      [or_groups EXCEPT ![Len(or_groups)] = Append(@, e)])

\* processed_group: consecutive string tokens joined, nested lists kept
RECURSIVE ProcessGroup(_, _, _)
ProcessGroup(group_items, processed_group, current_str_parts) ==
    IF group_items = <<>> THEN
        IF current_str_parts # <<>>
        THEN Append(processed_group, Str(Join(current_str_parts)))
        ELSE processed_group
    ELSE
        LET item == Head(group_items) IN
        IF item.isStr THEN
            ProcessGroup(Tail(group_items), processed_group,
                         Append(current_str_parts, item.tok))
        ELSE
            LET flushed == IF current_str_parts # <<>>
                           THEN Append(processed_group, Str(Join(current_str_parts)))
                           ELSE processed_group
            IN  ProcessGroup(Tail(group_items), Append(flushed, item), <<>>)

\* A concatenated_path_to_type that leaves the import set alone.
concatenated_path_to_type_unregistered(path, element_path, imports) ==
    LET parts == Split(path, ".") IN
    IF \E i \in 1..Len(parts) : parts[i] = <<>>
    THEN Raise(Err("ValueError", "path", element_path), imports)
    ELSE Ok(path_to_type(parts), imports)

\* The mutant of concatenated_path_to_type that registers the whole path.
concatenated_path_to_type_whole(path, element_path, imports) ==
    LET parts == Split(path, ".") IN
    IF \E i \in 1..Len(parts) : parts[i] = <<>>
    THEN Raise(Err("ValueError", "path", element_path), imports)
    ELSE Ok(path_to_type(parts),
            IF Len(parts) > 1 THEN imports \cup {path} ELSE imports)

concatenated_path_to_type(path, element_path, imports) ==
    LET parts == Split(path, ".") IN
    IF \E i \in 1..Len(parts) : parts[i] = <<>>
    THEN Raise(Err("ValueError", "path", element_path), imports)
    ELSE Ok(path_to_type(parts),
            IF Len(parts) > 1
            THEN imports \cup {JoinWith(SubSeq(parts, 1, Len(parts) - 1), ".")}
            ELSE imports)

\* reduce(lambda left, right: BinOp(left, BitOr, right), parsed_or_elements)
RECURSIVE Reduce(_, _)
Reduce(left, rest) ==
    IF rest = <<>> THEN left ELSE Reduce(BinOp(left, Head(rest)), Tail(rest))

\* The mutant of UnionOf that folds from the right.
RECURSIVE ReduceRight(_)
ReduceRight(elements) ==
    IF Len(elements) = 1 THEN elements[1]
    ELSE BinOp(elements[1], ReduceRight(Tail(elements)))

UnionOf_right(parsed_or_elements) == ReduceRight(parsed_or_elements)

UnionOf(parsed_or_elements) ==
    Reduce(Head(parsed_or_elements), Tail(parsed_or_elements))

RECURSIVE parse_sequence(_, _, _)
RECURSIVE ParseGroups(_, _, _, _)

\* One turn of the loop over or_groups.
ParseGroup(group_items, element_path, imports) ==
    LET processed_group == ProcessGroup(group_items, <<>>, <<>>) IN
    IF processed_group = <<>> THEN
        Raise(Err("ValueError", "empty group after processing", element_path), imports)
    ELSE IF Len(processed_group) = 1 /\ processed_group[1].isStr THEN
        concatenated_path_to_type(processed_group[1].tok, element_path, imports)
    ELSE IF /\ Len(processed_group) = 2
            /\ processed_group[1].isStr
            /\ ~processed_group[2].isStr THEN
        LET slice_ast == parse_sequence(processed_group[2].items, element_path, imports) IN
        IF Failed(slice_ast) THEN slice_ast
        ELSE
            LET value == concatenated_path_to_type(processed_group[1].tok,
                                                   element_path, slice_ast.imports)
            IN  IF Failed(value) THEN value
                ELSE Ok(Subscript(value.ast, slice_ast.ast), value.imports)
    ELSE IF Len(processed_group) = 1 /\ ~processed_group[1].isStr THEN
        Raise(Err("ValueError", "unhandled processed group structure", element_path),
              imports)
    ELSE
        Raise(Err("ValueError", "unhandled processed group structure after joining",
                  element_path), imports)

ParseGroups(or_groups, parsed_or_elements, element_path, imports) ==
    IF or_groups = <<>> THEN
        IF parsed_or_elements = <<>>
        THEN Raise(Err("ValueError", "no elements parsed", element_path), imports)
        ELSE Ok(UnionOf(parsed_or_elements), imports)
    ELSE
        LET one == ParseGroup(Head(or_groups), element_path, imports) IN
        IF Failed(one) THEN one
        ELSE ParseGroups(Tail(or_groups), Append(parsed_or_elements, one.ast),
                         element_path, one.imports)

parse_sequence(sequence, element_path, imports) ==
    LET or_groups == OrGroups(sequence, << <<>> >>) IN
    IF or_groups = <<>> \/ \E i \in 1..Len(or_groups) : or_groups[i] = <<>>
    THEN Raise(Err("ValueError", "empty or malformed 'or' group", element_path), imports)
    ELSE ParseGroups(or_groups, <<>>, element_path, imports)

parse_type_to_ast(s, element_path, imports) ==
    LET nested == Brackets(Tokenize(s)) IN
    IF Failed(nested) THEN Raise(nested.err, imports)
    ELSE IF nested.stack = <<>> THEN Raise(Err("IndexError", "stack[0]", <<>>), imports)
    ELSE Only({
        IF Failed(r) /\ r.err.reason # "path"
        THEN Raise(NotAbleToParse(r.err, s), r.imports)
        ELSE r :
        r \in {parse_sequence(ListAt(nested.root, nested.stack[1]), element_path,
                              imports)}})

convert_type_from_doc(s, element_path, imports) ==
    parse_type_to_ast(Strip(s), element_path, imports)

(***************************************************************************)
(* BUILTINS                                                                *)
(***************************************************************************)
\* BUILTINS[name] is None
NoneEntry == [kind |-> "none", params |-> <<>>, ret |-> NoAst]

\* BUILTINS[name] is a tuple (parameter types, return type)
TupleEntry(params, ret) == [kind |-> "tuple", params |-> params, ret |-> ret]

\* name is not a key of BUILTINS
AbsentEntry == [kind |-> "absent", params |-> <<>>, ret |-> NoAst]

BUILTINS ==
    Dunder(<<"a", "n", "n", "o", "t", "a", "t", "i", "o", "n", "s">>) :> NoneEntry @@
    Dunder(<<"b", "o", "o", "l">>) :>
        TupleEntry(<<>>, path_to_type(<<BoolName>>)) @@
    Dunder(<<"b", "y", "t", "e", "s">>) :>
        TupleEntry(<<>>, path_to_type(<<BytesName>>)) @@
    Dunder(<<"c", "l", "a", "s", "s">>) :> NoneEntry @@
    Dunder(<<"c", "o", "n", "t", "a", "i", "n", "s">>) :>
        TupleEntry(<<path_to_type(<<TypingName, AnyName>>)>>, path_to_type(<<BoolName>>)) @@
    Dunder(<<"d", "e", "l">>) :> NoneEntry @@
    Dunder(<<"d", "e", "l", "a", "t", "t", "r">>) :>
        TupleEntry(<<path_to_type(<<StrName>>)>>, path_to_type(<<NoneName>>)) @@
    Dunder(<<"d", "e", "l", "i", "t", "e", "m">>) :>
        TupleEntry(<<path_to_type(<<TypingName, AnyName>>)>>, path_to_type(<<TypingName, AnyName>>)) @@
    Dunder(<<"d", "i", "c", "t">>) :> NoneEntry @@
    Dunder(<<"d", "i", "r">>) :> NoneEntry @@
    Dunder(<<"d", "o", "c">>) :> NoneEntry @@
    Dunder(<<"e", "q">>) :>
        TupleEntry(<<path_to_type(<<TypingName, AnyName>>)>>, path_to_type(<<BoolName>>)) @@
    Dunder(<<"f", "o", "r", "m", "a", "t">>) :>
        TupleEntry(<<path_to_type(<<StrName>>)>>, path_to_type(<<StrName>>)) @@
    Dunder(<<"g", "e">>) :>
        TupleEntry(<<path_to_type(<<TypingName, AnyName>>)>>, path_to_type(<<BoolName>>)) @@
    Dunder(<<"g", "e", "t", "a", "t", "t", "r", "i", "b", "u", "t", "e">>) :>
        TupleEntry(<<path_to_type(<<StrName>>)>>, path_to_type(<<TypingName, AnyName>>)) @@
    Dunder(<<"g", "e", "t", "i", "t", "e", "m">>) :>
        TupleEntry(<<path_to_type(<<TypingName, AnyName>>)>>, path_to_type(<<TypingName, AnyName>>)) @@
    Dunder(<<"g", "t">>) :>
        TupleEntry(<<path_to_type(<<TypingName, AnyName>>)>>, path_to_type(<<BoolName>>)) @@
    Dunder(<<"h", "a", "s", "h">>) :>
        TupleEntry(<<>>, path_to_type(<<IntName>>)) @@
    Dunder(<<"i", "n", "i", "t">>) :>
        TupleEntry(<<>>, path_to_type(<<NoneName>>)) @@
    Dunder(<<"i", "n", "i", "t", "_", "s", "u", "b", "c", "l", "a", "s", "s">>) :> NoneEntry @@
    Dunder(<<"i", "t", "e", "r">>) :>
        TupleEntry(<<>>, path_to_type(<<TypingName, AnyName>>)) @@
    Dunder(<<"l", "e">>) :>
        TupleEntry(<<path_to_type(<<TypingName, AnyName>>)>>, path_to_type(<<BoolName>>)) @@
    Dunder(<<"l", "e", "n">>) :>
        TupleEntry(<<>>, path_to_type(<<IntName>>)) @@
    Dunder(<<"l", "t">>) :>
        TupleEntry(<<path_to_type(<<TypingName, AnyName>>)>>, path_to_type(<<BoolName>>)) @@
    Dunder(<<"m", "o", "d", "u", "l", "e">>) :> NoneEntry @@
    Dunder(<<"n", "e">>) :>
        TupleEntry(<<path_to_type(<<TypingName, AnyName>>)>>, path_to_type(<<BoolName>>)) @@
    Dunder(<<"n", "e", "w">>) :> NoneEntry @@
    Dunder(<<"n", "e", "x", "t">>) :>
        TupleEntry(<<>>, path_to_type(<<TypingName, AnyName>>)) @@
    Dunder(<<"i", "n", "t">>) :>
        TupleEntry(<<>>, path_to_type(<<NoneName>>)) @@
    Dunder(<<"r", "e", "d", "u", "c", "e">>) :> NoneEntry @@
    Dunder(<<"r", "e", "d", "u", "c", "e", "_", "e", "x">>) :> NoneEntry @@
    Dunder(<<"r", "e", "p", "r">>) :>
        TupleEntry(<<>>, path_to_type(<<StrName>>)) @@
    Dunder(<<"s", "e", "t", "a", "t", "t", "r">>) :>
        TupleEntry(<<path_to_type(<<StrName>>), path_to_type(<<TypingName, AnyName>>)>>, path_to_type(<<NoneName>>)) @@
    Dunder(<<"s", "e", "t", "i", "t", "e", "m">>) :>
        TupleEntry(<<path_to_type(<<TypingName, AnyName>>), path_to_type(<<TypingName, AnyName>>)>>, path_to_type(<<TypingName, AnyName>>)) @@
    Dunder(<<"s", "i", "z", "e", "o", "f">>) :> NoneEntry @@
    Dunder(<<"s", "t", "r">>) :>
        TupleEntry(<<>>, path_to_type(<<StrName>>)) @@
    Dunder(<<"s", "u", "b", "c", "l", "a", "s", "s", "h", "o", "o", "k">>) :> NoneEntry

BUILTINS_get(name) ==
    IF name \in DOMAIN BUILTINS THEN BUILTINS[name] ELSE AbsentEntry

\* The early return without the reflected operators.
ArithmeticNames_forward ==
    {Dunder(<<"a", "d", "d">>),
     Dunder(<<"s", "u", "b">>),
     Dunder(<<"d", "i", "v">>),
     Dunder(<<"m", "u", "l">>)}

\* The names both arguments_stub and returns_stub return early for.
ArithmeticNames ==
    {Dunder(<<"a", "d", "d">>),
     Dunder(<<"s", "u", "b">>),
     Dunder(<<"d", "i", "v">>),
     Dunder(<<"m", "u", "l">>),
     Dunder(<<"r", "a", "d", "d">>),
     Dunder(<<"r", "s", "u", "b">>),
     Dunder(<<"r", "d", "i", "v">>),
     Dunder(<<"r", "m", "u", "l">>)}

(***************************************************************************)
(* Reflected callables and their documentation                             *)
(***************************************************************************)
\* inspect.Parameter: default is "empty" or the text of the default value.
Parameter(name, kind, default) == [name |-> name, kind |-> kind, default |-> default]

\* inspect.signature(callable_def): found is FALSE when it raises
\* ValueError("no signature found ...").
Signature(parameters) == [found |-> TRUE, parameters |-> parameters]

NoSignature == [found |-> FALSE, parameters |-> <<>>]

\* inspect.getdoc(fn_def): None, or the lines of the documentation. A line is
\* what the regular expressions of the synthesizer see in it: a ":type
\* <name>: <text>" line, a ":rtype: <text>" line, or any other line.
NoDoc == [present |-> FALSE, lines |-> <<>>]

Doc(lines) == [present |-> TRUE, lines |-> lines]

TypeLine(name, text) == [tag |-> "type", name |-> name, text |-> text]

RtypeLine(text) == [tag |-> "rtype", name |-> <<>>, text |-> text]

TextLine(text) == [tag |-> "text", name |-> <<>>, text |-> text]

\* `doc` as a condition: neither None nor the empty string
Truthy(doc) == doc.present /\ doc.lines # <<>>

\* re.findall over the lines of doc, for the lines with this tag
RECURSIVE FindAll(_, _)
FindAll(lines, tag) ==
    IF lines = <<>> THEN <<>>
    ELSE IF Head(lines).tag = tag THEN <<Head(lines)>> \o FindAll(Tail(lines), tag)
    ELSE FindAll(Tail(lines), tag)

OptionalSuffix == <<",", " ", "o", "p", "t", "i", "o", "n", "a", "l">>

(***************************************************************************)
(* build_doc_comment                                                       *)
(***************************************************************************)
RECURSIVE CleanLines(_)
CleanLines(lines) ==
    IF lines = <<>> THEN <<>>
    ELSE IF Head(lines).tag \in {"type", "rtype"} THEN CleanLines(Tail(lines))
    ELSE IF Head(lines).tag = "return"
    THEN <<<<":", "r", "e", "t", "u", "r", "n", ":", " ">> \o Head(lines).text>>
         \o CleanLines(Tail(lines))
    ELSE <<Head(lines).text>> \o CleanLines(Tail(lines))

\* ast.Expr(ast.Constant(text)), or None when no text is left
build_doc_comment(doc) ==
    LET clean_lines == CleanLines(doc.lines) IN
    IF clean_lines # <<>> THEN [node |-> "Expr", value |-> clean_lines] ELSE NoAst

(***************************************************************************)
(* arguments_stub                                                          *)
(***************************************************************************)
Arg(name, annotation) == [arg |-> name, annotation |-> annotation]

Constant(value) == [node |-> "Constant", value |-> value]

Arguments(posonlyargs, args, vararg, kwonlyargs, kw_defaults, defaults, kwarg) ==
    [posonlyargs |-> posonlyargs, args |-> args, vararg |-> vararg,
     kwonlyargs |-> kwonlyargs, kw_defaults |-> kw_defaults,
     defaults |-> defaults, kwarg |-> kwarg]

\* ast.arguments(posonlyargs=[], args=[], defaults=[], kwonlyargs=[])
NoArguments == Arguments(<<>>, <<>>, NoAst, <<>>, <<>>, <<>>, NoAst)

ParameterNames(parameters) == {parameters[i].name : i \in 1..Len(parameters)}

\* {"self": Parameter("self", POSITIONAL_ONLY), **real_parameters}: self comes
\* first, with the real parameter of that name when there is one.
RECURSIVE Without(_, _)
Without(parameters, name) ==
    IF parameters = <<>> THEN <<>>
    ELSE IF Head(parameters).name = name THEN Without(Tail(parameters), name)
    ELSE <<Head(parameters)>> \o Without(Tail(parameters), name)

WithSelf(parameters) ==
    LET own == {i \in 1..Len(parameters) : parameters[i].name = SelfName} IN
    IF own = {}
    THEN <<Parameter(SelfName, "POSITIONAL_ONLY", "empty")>> \o parameters
    ELSE <<parameters[CHOOSE i \in own : TRUE]>> \o Without(parameters, SelfName)

\* An assignment that keeps the type a name already has.
Bind_keeping(types, name, t) ==
    [n \in DOMAIN types \cup {name} |->
        IF n \in DOMAIN types THEN types[n] ELSE t]

\* parsed_param_types[name] = t
Bind(types, name, t) ==
    [n \in DOMAIN types \cup {name} |-> IF n = name THEN t ELSE types[n]]

\* for name, t in zip(param_names, builtin[0]): parsed_param_types[name] = t
RECURSIVE Zip(_, _, _)
Zip(param_names, builtin_types, types) ==
    IF param_names = <<>> \/ builtin_types = <<>> THEN types
    ELSE Zip(Tail(param_names), Tail(builtin_types),
             Bind(types, Head(param_names), Head(builtin_types)))

\* The mutant of InSignature that takes every documented name.
InSignature_any(name, real_names) == TRUE

\* match[0] in real_parameters
InSignature(name, real_names) == name \in real_names

\* The loop over the ":type" lines. acc holds parsed_param_types,
\* optional_params and the import set; err is set by the first raise.
RECURSIVE TypeLines(_, _, _, _)
TypeLines(matches, real_names, element_path, acc) ==
    IF matches = <<>> THEN acc
    ELSE
        LET match == Head(matches) IN
        IF ~InSignature(match.name, real_names) THEN
            [acc EXCEPT !.err = Err("ValueError",
                "is defined in the documentation but not in the function signature",
                element_path)]
        ELSE
            LET optional == EndsWith(match.text, OptionalSuffix)
                type == IF optional
                        THEN SubSeq(match.text, 1, Len(match.text) - 10)
                        ELSE match.text
            IN  Only({
                    IF Failed(t) THEN
                        [acc EXCEPT !.err = t.err, !.imports = t.imports,
                                    !.optional = IF optional THEN @ \cup {match.name}
                                                 ELSE @]
                    ELSE Only({
                        TypeLines(Tail(matches), real_names, element_path, next) :
                        next \in {[acc EXCEPT
                                      !.types = Bind(@, match.name, t.ast),
                                      !.imports = t.imports,
                                      !.optional = IF optional THEN @ \cup {match.name}
                                                   ELSE @]}}) :
                    t \in {convert_type_from_doc(type, element_path, acc.imports)}})

\* The mutant of DefaultCheck that accepts a default the documentation does
\* not flag.
DefaultCheck_unflagged(param, optional_params, element_path) ==
    IF param.default = "empty" /\ param.name \in optional_params THEN
        Err("ValueError",
            "is optional according to the documentation but has no default value",
            element_path)
    ELSE NoErr

\* The two raises on default values against documented optionality.
DefaultCheck(param, optional_params, element_path) ==
    IF param.default # "empty" THEN
        IF param.name \notin optional_params THEN
            Err("ValueError",
                "is optional according to the type but not flagged as such in the doc",
                element_path)
        ELSE NoErr
    ELSE IF param.name \in optional_params THEN
        Err("ValueError",
            "is optional according to the documentation but has no default value",
            element_path)
    ELSE NoErr

\* The loop over real_parameters.values(). out is the ast.arguments built so
\* far; the result holds the first raise in err.
RECURSIVE Parameters(_, _, _, _, _)
Parameters(params, types, optional_params, element_path, out) ==
    IF params = <<>> THEN [err |-> NoErr, out |-> out]
    ELSE
        LET param == Head(params) IN
        IF param.name # SelfName /\ param.name \notin DOMAIN types THEN
            [err |-> Err("ValueError",
                         "has no type definition in the function documentation",
                         element_path),
             out |-> out]
        ELSE
            LET param_ast == Arg(param.name,
                                 IF param.name \in DOMAIN types
                                 THEN types[param.name] ELSE NoAst)
                default_ast == IF param.default # "empty"
                               THEN Constant(param.default) ELSE NoAst
                check == DefaultCheck(param, optional_params, element_path)
                next ==
                    CASE param.kind = "POSITIONAL_ONLY" ->
                            [out EXCEPT !.args = Append(@, param_ast)]
                      [] param.kind = "POSITIONAL_OR_KEYWORD" ->
                            [out EXCEPT !.args = Append(@, param_ast),
                                        !.defaults = Append(@, default_ast)]
                      [] param.kind = "VAR_POSITIONAL" ->
                            [out EXCEPT !.vararg = param_ast]
                      [] param.kind = "KEYWORD_ONLY" ->
                            [out EXCEPT !.kwonlyargs = Append(@, param_ast),
                                        !.kw_defaults = Append(@, default_ast)]
                      [] param.kind = "VAR_KEYWORD" ->
                            [out EXCEPT !.kwarg = param_ast]
                      [] OTHER -> out
            IN  IF check # NoErr THEN [err |-> check, out |-> out]
                ELSE Parameters(Tail(params), types, optional_params, element_path, next)

NoTypes == [n \in {} |-> NoAst]

arguments_stub(callable_name, callable_def, doc, element_path, imports) ==
    IF ErrorInName(element_path[2]) THEN Ok(NoArguments, imports)
    ELSE IF ~callable_def.signature.found THEN
        Raise(Err("ValueError", "no signature found", <<>>), imports)
    ELSE
        LET real_parameters ==
                IF callable_name = InitName
                THEN WithSelf(callable_def.signature.parameters)
                ELSE callable_def.signature.parameters
            builtin == BUILTINS_get(callable_name)
            param_names ==
                LET names == [i \in 1..Len(real_parameters) |-> real_parameters[i].name]
                IN  IF names # <<>> /\ names[1] = SelfName THEN Tail(names) ELSE names
        IN
        IF builtin.kind # "tuple" /\ callable_name \in ArithmeticNames THEN
            Ok(NoArguments, imports)
        ELSE
            LET from_table == IF builtin.kind = "tuple"
                              THEN Zip(param_names, builtin.params, NoTypes)
                              ELSE NoTypes
                from_doc ==
                    TypeLines(FindAll(doc.lines, "type"),
                              ParameterNames(real_parameters), element_path,
                              [types |-> from_table, optional |-> {},
                               imports |-> imports, err |-> NoErr])
            IN  Only({
                    IF parsed_doc.err # NoErr
                    THEN Raise(parsed_doc.err, parsed_doc.imports)
                    ELSE Only({
                        IF built.err # NoErr THEN Raise(built.err, parsed_doc.imports)
                        ELSE Ok(built.out, parsed_doc.imports) :
                        built \in {Parameters(real_parameters, parsed_doc.types,
                                              parsed_doc.optional, element_path,
                                              Arguments(<<>>, <<>>, NoAst, <<>>,
                                                        <<>>, <<>>, NoAst))}}) :
                    parsed_doc \in {from_doc}})

(***************************************************************************)
(* returns_stub                                                            *)
(***************************************************************************)
\* The mutant of returns_stub that takes the first of several ":rtype:" lines.
returns_stub_first(callable_name, doc, element_path, imports) ==
    IF Contains(element_path[2], ErrorName) THEN Ok(NoAst, imports)
    ELSE IF callable_name \in ArithmeticNames THEN Ok(NoAst, imports)
    ELSE
        LET m == FindAll(doc.lines, "rtype")
            builtin == BUILTINS_get(callable_name)
        IN  IF Len(m) = 0 THEN
                IF builtin.kind = "tuple" /\ builtin.ret # NoAst
                THEN Ok(builtin.ret, imports)
                ELSE Raise(Err("ValueError",
                               "has no type definition using :rtype:",
                               element_path), imports)
            ELSE convert_type_from_doc(m[1].text, element_path, imports)

returns_stub(callable_name, doc, element_path, imports) ==
    IF ErrorInName(element_path[2]) THEN Ok(NoAst, imports)
    ELSE IF callable_name \in ArithmeticNames THEN Ok(NoAst, imports)
    ELSE
        LET m == FindAll(doc.lines, "rtype")
            builtin == BUILTINS_get(callable_name)
        IN  IF Len(m) = 0 THEN
                IF builtin.kind = "tuple" /\ builtin.ret # NoAst
                THEN Ok(builtin.ret, imports)
                ELSE Raise(Err("ValueError",
                               "has no type definition using :rtype:",
                               element_path), imports)
            ELSE IF Len(m) > 1 THEN
                Raise(Err("ValueError", "Multiple return type annotations found",
                          element_path), imports)
            ELSE convert_type_from_doc(m[1].text, element_path, imports)

(***************************************************************************)
(* function_stub                                                           *)
(***************************************************************************)
FunctionDef(name, args, body, decorator_list, returns) ==
    [node |-> "FunctionDef", name |-> name, args |-> args, body |-> body,
     decorator_list |-> decorator_list, returns |-> returns]

Ellipsis == [node |-> "Ellipsis"]

\* What function_stub did: the calls of arguments_stub and returns_stub (the
\* latter is not made when arguments_stub raised, or when doc is falsy) and
\* the function's own outcome.
function_stub(fn_name, fn_def, element_path, imports, in_class) ==
    LET doc == fn_def.doc
        doc_comment == IF doc.present THEN build_doc_comment(doc) ELSE NoAst
        body == IF doc_comment # NoAst THEN <<doc_comment>> ELSE <<>>
        decorator_list == IF in_class /\ fn_def.has_self
                          THEN <<Name(<<"s","t","a","t","i","c","m","e","t","h","o","d">>)>>
                          ELSE <<>>
    IN  Only({Only({
            [arguments |-> arguments,
             returns_called |-> ~Failed(arguments) /\ Truthy(doc),
             returns |-> returns,
             err |-> IF Failed(arguments) THEN arguments.err ELSE returns.err,
             imports |-> returns.imports,
             ast |-> IF Failed(arguments) \/ Failed(returns) THEN NoAst
                     ELSE FunctionDef(fn_name, arguments.ast,
                                      IF body # <<>> THEN body ELSE <<Ellipsis>>,
                                      decorator_list, returns.ast)] :
            returns \in {IF ~Failed(arguments) /\ Truthy(doc)
                         THEN returns_stub(fn_name, doc, element_path,
                                           arguments.imports)
                         ELSE Ok(NoAst, arguments.imports)}}) :
            arguments \in {arguments_stub(fn_name, fn_def, doc, element_path,
                                          imports)}})

(***************************************************************************)
(* Sorted order of strings                                                 *)
(***************************************************************************)
\* The characters of names and import paths, by code point.
CodePoints ==
    <<".", "A", "B", "C", "D", "E", "F", "G", "H", "I", "J", "K", "L", "M",
      "N", "O", "P", "Q", "R", "S", "T", "U", "V", "W", "X", "Y", "Z", "_",
      "a", "b", "c", "d", "e", "f", "g", "h", "i", "j", "k", "l", "m", "n",
      "o", "p", "q", "r", "s", "t", "u", "v", "w", "x", "y", "z">>

ord(c) == CHOOSE i \in 1..Len(CodePoints) : CodePoints[i] = c

\* a < b on strings
RECURSIVE Less(_, _)
Less(a, b) ==
    IF b = <<>> THEN FALSE
    ELSE IF a = <<>> THEN TRUE
    ELSE IF Head(a) = Head(b) THEN Less(Tail(a), Tail(b))
    ELSE ord(Head(a)) < ord(Head(b))

RECURSIVE InsertSorted(_, _)
InsertSorted(done, x) ==
    IF done = <<>> THEN <<x>>
    ELSE IF Less(x, Head(done)) THEN <<x>> \o done
    ELSE <<Head(done)>> \o InsertSorted(Tail(done), x)

\* The mutant of sorted that keeps the order it is given.
sorted_as_iterated(iterable) == iterable

\* sorted(iterable) for a sequence of distinct strings
RECURSIVE sorted(_)
sorted(iterable) ==
    IF iterable = <<>> THEN <<>>
    ELSE InsertSorted(sorted(SubSeq(iterable, 1, Len(iterable) - 1)),
                      iterable[Len(iterable)])

\* The orders a set can be iterated in: the order of a set of strings
\* depends on the hash seed of the process.
Orders(S) ==
    {o \in [1..Cardinality(S) -> S] :
         \A i, j \in 1..Cardinality(S) : i # j => o[i] # o[j]}

\* inspect.getmembers(container): the members sorted by name
getmembers(members) ==
    LET names == sorted(Only(Orders({m.name : m \in members})))
    IN  [i \in 1..Len(names) |-> Only({m \in members : m.name = names[i]})]

(***************************************************************************)
(* Reflected classes and their members                                     *)
(***************************************************************************)
\* The keys of OBJECT_MEMBERS, the members of object.
OBJECT_MEMBERS ==
    {Dunder(<<"c", "l", "a", "s", "s">>),
     Dunder(<<"d", "e", "l", "a", "t", "t", "r">>),
     Dunder(<<"d", "i", "r">>),
     Dunder(<<"d", "o", "c">>),
     Dunder(<<"e", "q">>),
     Dunder(<<"f", "o", "r", "m", "a", "t">>),
     Dunder(<<"g", "e">>),
     Dunder(<<"g", "e", "t", "a", "t", "t", "r", "i", "b", "u", "t", "e">>),
     Dunder(<<"g", "e", "t", "s", "t", "a", "t", "e">>),
     Dunder(<<"g", "t">>),
     Dunder(<<"h", "a", "s", "h">>),
     Dunder(<<"i", "n", "i", "t">>),
     Dunder(<<"i", "n", "i", "t", "_", "s", "u", "b", "c", "l", "a", "s", "s">>),
     Dunder(<<"l", "e">>),
     Dunder(<<"l", "t">>),
     Dunder(<<"n", "e">>),
     Dunder(<<"n", "e", "w">>),
     Dunder(<<"r", "e", "d", "u", "c", "e">>),
     Dunder(<<"r", "e", "d", "u", "c", "e", "_", "e", "x">>),
     Dunder(<<"r", "e", "p", "r">>),
     Dunder(<<"s", "e", "t", "a", "t", "t", "r">>),
     Dunder(<<"s", "i", "z", "e", "o", "f">>),
     Dunder(<<"s", "t", "r">>),
     Dunder(<<"s", "u", "b", "c", "l", "a", "s", "s", "h", "o", "o", "k">>)}

\* A reflected value: kind is "class", "builtin" (a builtin function),
\* "routine", "datadescriptor", "value" (any other value that is not None)
\* or "none" (None). inherited says that the member of a class is the one
\* object has; members are those of a class; class_name is
\* member_value.__class__.__name__.
Reflected(name, kind, doc, signature, has_self) ==
    [name |-> name, kind |-> kind, doc |-> doc, signature |-> signature,
     has_self |-> has_self, inherited |-> FALSE, members |-> <<>>,
     class_name |-> <<>>, value |-> <<>>]

Inherited(name) ==
    [Reflected(name, "routine", NoDoc, NoSignature, FALSE) EXCEPT !.inherited = TRUE]

Value(name, class_name) ==
    [Reflected(name, "value", NoDoc, NoSignature, FALSE)
        EXCEPT !.class_name = class_name]

None(name) == Reflected(name, "none", NoDoc, NoSignature, FALSE)

\* member_value == OBJECT_MEMBERS.get(member_name): .get gives None for a name
\* object does not have.
EqualsObjectMember(member) ==
    IF member.name \in OBJECT_MEMBERS THEN member.inherited
    ELSE member.kind = "none"

ReturnLine(text) == [tag |-> "return", name |-> <<>>, text |-> text]

(***************************************************************************)
(* data_descriptor_stub                                                    *)
(***************************************************************************)
AnnAssign(target, annotation, value) ==
    [node |-> "AnnAssign", target |-> Name(target), annotation |-> annotation,
     value |-> value]

\* The statements of the attribute, or the exception.
data_descriptor_stub(data_desc_name, data_desc_def, element_path, imports) ==
    LET doc == data_desc_def.doc
        any == path_to_type(<<TypingName, AnyName>>)
    IN
    IF ~doc.present THEN Ok(<<AnnAssign(data_desc_name, any, NoAst)>>, imports)
    ELSE Only({
        IF Failed(annotation) THEN annotation
        ELSE
            LET m == FindAll(doc.lines, "return")
                assign == AnnAssign(data_desc_name,
                                    IF annotation.ast # NoAst THEN annotation.ast
                                    ELSE any,
                                    NoAst)
                doc_comment == IF Len(m) = 1
                               THEN build_doc_comment(Doc(<<TextLine(m[1].text)>>))
                               ELSE NoAst
            IN  IF Len(m) > 1 THEN
                    Raise(Err("ValueError",
                              "Multiple return annotations found with :return:",
                              element_path), annotation.imports)
                ELSE Ok(IF doc_comment # NoAst THEN <<assign, doc_comment>>
                        ELSE <<assign>>, annotation.imports) :
        annotation \in {returns_stub(data_desc_name, doc, element_path, imports)}})

(***************************************************************************)
(* class_stubs                                                             *)
(***************************************************************************)
MatchArgsName == Dunder(<<"m", "a", "t", "c", "h", "_", "a", "r", "g", "s">>)

TupleName == <<"t", "u", "p", "l", "e">>

FinalName == <<"f", "i", "n", "a", "l">>

\* "__init_", as the message of the constructor's error spells it
InitInMessage == <<"_", "_", "i", "n", "i", "t", "_">>

Tuple(elts) == [node |-> "Tuple", elts |-> elts]

ClassDef(name, body, decorator_list) ==
    [node |-> "ClassDef", name |-> name, body |-> body,
     decorator_list |-> decorator_list]

\* What the loop of class_stubs holds: the four lists, the import set, the
\* warnings logged, and the exception when a member raised.
NoMembers(imports) ==
    [imports |-> imports, attributes |-> <<>>, methods |-> <<>>, magic_methods |-> <<>>,
     constants |-> <<>>, warnings |-> <<>>, err |-> NoErr]

\* A constructor filed by its name, with the special methods.
Constructor_by_name(cls_name, cls_def, current_element_path, acc) ==
    IF ~cls_def.signature.found THEN acc
    ELSE Only({
        IF ~Failed(r) THEN
            [acc EXCEPT !.magic_methods = Append(@, r.ast), !.imports = r.imports]
        ELSE [acc EXCEPT !.imports = r.imports, !.err = r.err] :
        r \in {function_stub(InitName, cls_def, current_element_path,
                             acc.imports, TRUE)}})

NoSignaturePhrase ==
    <<"n", "o", " ", "s", "i", "g", "n", "a", "t", "u", "r", "e", " ",
      "f", "o", "u", "n", "d">>

\* "no signature found" in str(e): the message inspect.signature raises
\* with, or a message that quotes a hint holding these words.
NoSignatureInMessage(err) ==
    \/ err.reason = "no signature found"
    \/ /\ "type_str" \in DOMAIN err
       /\ Contains(err.type_str, NoSignaturePhrase)

\* The constructor: function_stub on the class itself, inside try/except
\* ValueError.
Constructor(cls_name, cls_def, current_element_path, acc) ==
    IF ~cls_def.signature.found THEN acc
    ELSE Only({
        IF ~Failed(r) THEN
            [acc EXCEPT !.methods = <<r.ast>> \o @, !.imports = r.imports]
        ELSE IF r.err.type = "ValueError" THEN
            IF NoSignatureInMessage(r.err)
            THEN [acc EXCEPT !.imports = r.imports]
            ELSE [acc EXCEPT !.imports = r.imports,
                             !.err = Err("ValueError",
                                         "Error while parsing signature of",
                                         <<cls_name, InitInMessage>>)]
        ELSE [acc EXCEPT !.imports = r.imports, !.err = r.err] :
        r \in {function_stub(InitName, cls_def, current_element_path,
                             acc.imports, TRUE)}})

\* One turn of the loop over inspect.getmembers(cls_def).
ClassMember(member, cls_name, cls_def, element_path, acc) ==
    LET member_name == member.name
        current_element_path == Append(element_path, member_name)
    IN
    IF member_name = InitName /\ ~ErrorInName(cls_name) THEN
        Constructor(cls_name, cls_def, current_element_path, acc)
    ELSE IF EqualsObjectMember(member) \/ BUILTINS_get(member_name).kind = "none"
    THEN acc
    ELSE IF member.kind = "datadescriptor" THEN
        Only({
            IF Failed(r) THEN [acc EXCEPT !.imports = r.imports, !.err = r.err]
            ELSE [acc EXCEPT !.attributes = @ \o r.ast, !.imports = r.imports] :
            r \in {data_descriptor_stub(member_name, member, current_element_path,
                                       acc.imports)}})
    ELSE IF member.kind \in {"routine", "builtin"} THEN
        Only({
            IF Failed(r) THEN [acc EXCEPT !.imports = r.imports, !.err = r.err]
            ELSE IF StartsWith(member_name, <<"_", "_">>)
            THEN [acc EXCEPT !.magic_methods = Append(@, r.ast),
                             !.imports = r.imports]
            ELSE [acc EXCEPT !.methods = Append(@, r.ast), !.imports = r.imports] :
            r \in {function_stub(member_name, member, current_element_path,
                                acc.imports, TRUE)}})
    ELSE IF member_name = MatchArgsName THEN
        [acc EXCEPT !.constants =
            Append(@, AnnAssign(member_name,
                                Subscript(path_to_type(<<TupleName>>),
                                          Tuple(<<path_to_type(<<StrName>>),
                                                  Ellipsis>>)),
                                Constant(member.value)))]
    ELSE IF member.kind # "none" THEN
        Only({
            IF Failed(t) THEN [acc EXCEPT !.imports = t.imports, !.err = t.err]
            ELSE [acc EXCEPT !.constants =
                                 Append(@, AnnAssign(member_name, t.ast, Ellipsis)),
                             !.imports = t.imports] :
            t \in {concatenated_path_to_type(member.class_name, element_path,
                                            acc.imports)}})
    ELSE [acc EXCEPT !.warnings = Append(@, current_element_path)]

RECURSIVE ClassMembers(_, _, _, _, _)
ClassMembers(members, cls_name, cls_def, element_path, acc) ==
    IF members = <<>> THEN acc
    ELSE Only({
        IF next.err # NoErr THEN next
        ELSE ClassMembers(Tail(members), cls_name, cls_def, element_path, next) :
        next \in {ClassMember(Head(members), cls_name, cls_def, element_path,
                              acc)}})

\* The ClassDef or the exception, the import set, and the warnings logged.
class_stubs(cls_name, cls_def, element_path, imports) ==
    Only({
        IF walked.err # NoErr
        THEN [err |-> walked.err, ast |-> NoAst, imports |-> walked.imports,
              warnings |-> walked.warnings]
        ELSE
            LET doc == cls_def.doc
                doc_comment == IF Truthy(doc) THEN build_doc_comment(doc) ELSE NoAst
                body == (IF doc_comment # NoAst THEN <<doc_comment>> ELSE <<>>)
                        \o walked.attributes \o walked.methods
                        \o walked.magic_methods \o walked.constants
            IN  [err |-> NoErr,
                 ast |-> ClassDef(cls_name,
                                  IF body # <<>> THEN body ELSE <<Ellipsis>>,
                                  <<path_to_type(<<TypingName, FinalName>>)>>),
                 imports |-> walked.imports,
                 warnings |-> walked.warnings] :
        walked \in {ClassMembers(cls_def.members, cls_name, cls_def, element_path,
                                 NoMembers(imports))}})

(***************************************************************************)
(* module_stubs                                                            *)
(***************************************************************************)
DoraStatusName == <<"D", "o", "r", "a", "S", "t", "a", "t", "u", "s">>

Import(name) == [node |-> "Import", name |-> name]

\* One turn of the loop over inspect.getmembers(module): the class or the
\* function appended, the import set, a warning, or the exception.
ModuleMember(member, module_name, imports) ==
    LET member_name == member.name
        element_path == <<module_name, member_name>>
        skipped == [err |-> NoErr, ast |-> NoAst, imports |-> imports,
                    warnings |-> <<>>, list |-> "none"]
    IN
    IF StartsWith(member_name, <<"_", "_">>) THEN skipped
    ELSE IF StartsWith(member_name, DoraStatusName) THEN skipped
    ELSE IF member.kind = "class" THEN
        Only({[err |-> r.err, ast |-> r.ast, imports |-> r.imports,
               warnings |-> r.warnings, list |-> "classes"] :
              r \in {class_stubs(member_name, member, element_path, imports)}})
    ELSE IF member.kind = "builtin" THEN
        Only({[err |-> r.err, ast |-> r.ast, imports |-> r.imports,
               warnings |-> <<>>, list |-> "functions"] :
              r \in {function_stub(member_name, member, element_path, imports,
                                  FALSE)}})
    ELSE [skipped EXCEPT !.warnings = <<element_path>>]

\* ast.Module(body=[imports in sorted order] + classes + functions), where
\* order is the order the set is iterated in.
Module(order, classes, functions) ==
    [node |-> "Module",
     body |-> [i \in 1..Len(order) |-> Import(sorted(order)[i])]
              \o classes \o functions]

(***************************************************************************)
(* SpecParse: parse_type_to_ast applied to hint texts                      *)
(***************************************************************************)
TypingList == TypingName \o <<".">> \o ListName

OrPiece == <<" ">> \o OrToken \o <<" ">>

CommaInt == <<",", " ">> \o IntName

\* The pieces a hint text is written with: two names (one of them dotted),
\* the punctuation of the grammar, and a further comma-separated item.
Pieces == {IntName, TypingList, <<".">>, <<"[">>, <<"]">>, OrPiece, CommaInt}

\* The declaration the hint is documented on.
ElementPath == << <<"m">>, <<"f">> >>

StartImports == {{}, {TypingName}}

NotParsed == Raise(Err("", "not parsed", <<>>), {})

NoCallable ==
    [name |-> <<>>, element_path |-> <<>>, in_class |-> FALSE,
     def |-> [signature |-> NoSignature, doc |-> NoDoc, has_self |-> FALSE]]

NoRun == [pass |-> 0]

NoStub == [err |-> Err("", "not called", <<>>)]

InitParse ==
    /\ type_str = <<>>
    /\ types_to_import \in StartImports
    /\ before = types_to_import
    /\ phase = "hint"
    /\ parsed = NotParsed
    /\ callable = NoCallable
    /\ stub = NoStub
    /\ run = NoRun

\* The documentation author writes one more piece of the hint.
WriteHint ==
    /\ phase = "hint"
    /\ Len(type_str) < MaxHint
    /\ \E p \in Pieces : type_str' = Append(type_str, p)
    /\ UNCHANGED <<types_to_import, before, phase, parsed, callable, stub, run>>

\* parse_type_to_ast(type_str, element_path, types_to_import)
ParseHint ==
    /\ phase = "hint"
    /\ LET r == parse_type_to_ast(Join(type_str), ElementPath, types_to_import) IN
        /\ parsed' = r
        /\ types_to_import' = r.imports
    /\ before' = types_to_import
    /\ phase' = "parsed"
    /\ UNCHANGED <<type_str, callable, stub, run>>

NextParse == WriteHint \/ ParseHint

SpecParse == InitParse /\ [][NextParse]_vars

(***************************************************************************)
(* SpecFn: function_stub applied to reflected callables                    *)
(***************************************************************************)
ModuleName == <<"h", "i", "f", "i", "t", "i", "m", "e">>

EpochName == <<"E", "p", "o", "c", "h">>

ParsingErrorName == <<"P", "a", "r", "s", "i", "n", "g">> \o ErrorName

NowName == <<"n", "o", "w">>

SetattrName == Dunder(<<"s", "e", "t", "a", "t", "t", "r">>)

AddName == Dunder(<<"a", "d", "d">>)

XName == <<"x">>

YName == <<"y">>

ZName == <<"z">>

\* a method whose own name holds "Error"
FromErrorName == <<"f", "r", "o", "m">> \o ErrorName

\* The callables function_stub is applied to: a free function, and in a
\* class an ordinary method, a special method of the table, an arithmetic
\* method and the constructor; a method of a class named *Error*; and a
\* method named *Error* of a class that is not.
Members ==
    {[name |-> NowName, element_path |-> <<ModuleName, NowName>>,
      in_class |-> FALSE, has_self |-> TRUE],
     [name |-> NowName, element_path |-> <<ModuleName, EpochName, NowName>>,
      in_class |-> TRUE, has_self |-> FALSE],
     [name |-> SetattrName, element_path |-> <<ModuleName, EpochName, SetattrName>>,
      in_class |-> TRUE, has_self |-> FALSE],
     [name |-> AddName, element_path |-> <<ModuleName, EpochName, AddName>>,
      in_class |-> TRUE, has_self |-> FALSE],
     [name |-> InitName, element_path |-> <<ModuleName, EpochName, InitName>>,
      in_class |-> TRUE, has_self |-> FALSE],
     [name |-> NowName, element_path |-> <<ModuleName, ParsingErrorName, NowName>>,
      in_class |-> TRUE, has_self |-> FALSE],
     [name |-> FromErrorName,
      element_path |-> <<ModuleName, EpochName, FromErrorName>>,
      in_class |-> TRUE, has_self |-> FALSE]}

\* Parameter names in the order a signature lists them.
ParameterOrder == <<SelfName, XName, YName>>

KindOrder == <<"POSITIONAL_ONLY", "POSITIONAL_OR_KEYWORD", "KEYWORD_ONLY">>

Index(seq, e) == CHOOSE i \in 1..Len(seq) : seq[i] = e

Positional(p) == p.kind \in {"POSITIONAL_ONLY", "POSITIONAL_OR_KEYWORD"}

\* The parameters a signature can go on with: inspect.Signature holds names
\* once, kinds in their order, and no positional parameter without a default
\* after one with a default.
NextParameters(parameters) ==
    {p \in [name : {XName, YName},
            kind : {KindOrder[i] : i \in 1..Len(KindOrder)},
            default : {"empty", "1"}] \cup
           {Parameter(SelfName, "POSITIONAL_ONLY", "empty")} :
        \A i \in 1..Len(parameters) :
            /\ Index(ParameterOrder, parameters[i].name) < Index(ParameterOrder, p.name)
            /\ Index(KindOrder, parameters[i].kind) <= Index(KindOrder, p.kind)
            /\ (Positional(p) /\ parameters[i].default # "empty") => p.default # "empty"}

IntOptional == IntName \o OptionalSuffix

IntOr == IntName \o <<" ">> \o OrToken

\* The lines a documentation string is written with.
DocLines ==
    {TypeLine(XName, IntName), TypeLine(XName, IntOptional), TypeLine(XName, IntOr),
     TypeLine(YName, IntName), TypeLine(YName, IntOptional),
     TypeLine(ZName, IntName),
     RtypeLine(IntName), RtypeLine(IntOr),
     TextLine(<<"D", "o", "c", ".">>)}

InitFn ==
    /\ type_str = <<>>
    /\ types_to_import = {TypingName}
    /\ before = types_to_import
    /\ phase = "reflect"
    /\ parsed = NotParsed
    /\ \E m \in Members :
           callable = [name |-> m.name, element_path |-> m.element_path,
                       in_class |-> m.in_class,
                       def |-> [signature |-> Signature(<<>>), doc |-> NoDoc,
                                has_self |-> m.has_self]]
    /\ stub = NoStub
    /\ run = NoRun

\* The reflected callable has one more parameter.
AddParameter ==
    /\ phase = "reflect"
    /\ callable.def.signature.found
    /\ \E p \in NextParameters(callable.def.signature.parameters) :
           callable' = [callable EXCEPT !.def.signature.parameters = Append(@, p)]
    /\ UNCHANGED <<type_str, types_to_import, before, phase, parsed, stub, run>>

\* The reflected callable is one inspect.signature finds no signature for.
HideSignature ==
    /\ phase = "reflect"
    /\ callable.def.signature = Signature(<<>>)
    /\ callable' = [callable EXCEPT !.def.signature = NoSignature]
    /\ UNCHANGED <<type_str, types_to_import, before, phase, parsed, stub, run>>

\* The documentation of the reflected callable has one more line.
AddDocLine ==
    /\ phase = "reflect"
    /\ Len(callable.def.doc.lines) < MaxLines
    /\ \E l \in DocLines :
           callable' = [callable EXCEPT !.def.doc = Doc(Append(@.lines, l))]
    /\ UNCHANGED <<type_str, types_to_import, before, phase, parsed, stub, run>>

\* function_stub(fn_name, fn_def, element_path, types_to_import, in_class=...)
FunctionStub ==
    /\ phase = "reflect"
    /\ \E r \in {function_stub(callable.name, callable.def, callable.element_path,
                              types_to_import, callable.in_class)} :
           /\ stub' = r
           /\ types_to_import' = r.imports
    /\ before' = types_to_import
    /\ phase' = "stubbed"
    /\ UNCHANGED <<type_str, parsed, callable, run>>

NextFn == AddParameter \/ HideSignature \/ AddDocLine \/ FunctionStub

SpecFn == InitFn /\ [][NextFn]_vars

(***************************************************************************)
(* Claims about arguments_stub, returns_stub and function_stub             *)
(***************************************************************************)
\* The callables arguments_stub and returns_stub return early for: the
\* second component of the element path holds "Error", or the name is one of
\* the arithmetic method names.
Exempt(c) ==
    Contains(c.element_path[2], ErrorName) \/ c.name \in ArithmeticNames

\* The parameters of the real signature.
RealParameters(c) == c.def.signature.parameters

RealNames(c) == ParameterNames(RealParameters(c))

\* The parameter names a ":type" line may name: those of the real
\* signature, and self for the constructor.
DocumentableNames(c) ==
    RealNames(c) \cup (IF c.name = InitName THEN {SelfName} ELSE {})

TypeLinesOf(c) == FindAll(c.def.doc.lines, "type")

RtypeLinesOf(c) == FindAll(c.def.doc.lines, "rtype")

\* The names whose ":type" line carries the ", optional" suffix.
DocumentedOptional(c) ==
    {TypeLinesOf(c)[i].name :
         i \in {j \in 1..Len(TypeLinesOf(c)) :
                    EndsWith(TypeLinesOf(c)[j].text, OptionalSuffix)}}

DefaultsMatchDoc(c) ==
    \A i \in 1..Len(RealParameters(c)) :
        (RealParameters(c)[i].default # "empty")
            <=> (RealParameters(c)[i].name \in DocumentedOptional(c))

StaleLines(c, names) ==
    {i \in 1..Len(TypeLinesOf(c)) : TypeLinesOf(c)[i].name \notin names}

StaleError(c) ==
    Err("ValueError",
        "is defined in the documentation but not in the function signature",
        c.element_path)

\* C5 as claimed: a ":type" line whose name is no parameter of the real
\* signature raises the stale-documentation error, and the callable is not
\* synthesized.
C5_StaleLineRaises ==
    (phase = "stubbed" /\ StaleLines(callable, RealNames(callable)) # {}) =>
        /\ stub.err = StaleError(callable)
        /\ stub.ast = NoAst

\* The hint of a ":type" line, the suffix taken off, does not parse.
HintFails(line) ==
    Failed(convert_type_from_doc(
        IF EndsWith(line.text, OptionalSuffix)
        THEN SubSeq(line.text, 1, Len(line.text) - Len(OptionalSuffix))
        ELSE line.text, <<ModuleName, NowName>>, {}))

\* C5 amended: for a callable that is not exempt and has a signature, a
\* ":type" line that names no parameter (self counts as one of the
\* constructor's) makes arguments_stub raise, so the callable is not
\* synthesized; the error is the stale-documentation error naming the
\* element path unless the hint of an earlier ":type" line fails to parse.
C5_StaleLineRaisesUnlessExempt ==
    LET stale == StaleLines(callable, DocumentableNames(callable)) IN
    (/\ phase = "stubbed"
     /\ ~Exempt(callable)
     /\ callable.def.signature.found
     /\ stale # {}) =>
        /\ Failed(stub.arguments)
        /\ stub.ast = NoAst
        /\ (\A i \in 1..Len(TypeLinesOf(callable)) :
                (\A j \in stale : i < j) => ~HintFails(TypeLinesOf(callable)[i]))
           => stub.err = StaleError(callable)

\* C5 witness: a method with a parameter x documented ":type z: int".
C5_Witness ==
    /\ phase = "stubbed"
    /\ callable.element_path = <<ModuleName, EpochName, NowName>>
    /\ RealNames(callable) = {XName}
    /\ callable.def.doc = Doc(<<TypeLine(XName, IntName), TypeLine(ZName, IntName)>>)
    /\ stub.err = StaleError(callable)

AmbiguousError(c) ==
    Err("ValueError", "Multiple return type annotations found", c.element_path)

\* C6 as claimed: documentation with more than one ":rtype:" line raises the
\* ambiguous-return error, and no return type is chosen.
C6_TwoRtypesRaise ==
    (phase = "stubbed" /\ Len(RtypeLinesOf(callable)) > 1) =>
        /\ stub.err = AmbiguousError(callable)
        /\ stub.ast = NoAst

\* C6 amended: for a callable that is not exempt, documentation with more
\* than one ":rtype:" line makes function_stub raise, and no return type is
\* chosen; the error is the ambiguous-return error naming the element path
\* whenever arguments_stub, which runs first, returned.
C6_TwoRtypesRaiseUnlessExempt ==
    (phase = "stubbed" /\ ~Exempt(callable) /\ Len(RtypeLinesOf(callable)) > 1) =>
        /\ stub.err # NoErr
        /\ stub.ast = NoAst
        /\ ~Failed(stub.arguments) =>
               /\ stub.returns_called
               /\ stub.err = AmbiguousError(callable)

\* C6 witness: a method without parameters documented with two ":rtype:"
\* lines, refused by returns_stub.
C6_Witness ==
    /\ phase = "stubbed"
    /\ callable.element_path = <<ModuleName, EpochName, NowName>>
    /\ callable.def.doc = Doc(<<RtypeLine(IntName), RtypeLine(IntName)>>)
    /\ ~Failed(stub.arguments)
    /\ stub.err = AmbiguousError(callable)

\* The parameter names of the real signature, self left out.
RECURSIVE NamesButSelf(_)
NamesButSelf(parameters) ==
    IF parameters = <<>> THEN <<>>
    ELSE IF Head(parameters).name = SelfName THEN NamesButSelf(Tail(parameters))
    ELSE <<Head(parameters).name>> \o NamesButSelf(Tail(parameters))

\* The annotations of the emitted parameters, self left out.
RECURSIVE Annotations(_)
Annotations(args) ==
    IF args = <<>> THEN <<>>
    ELSE IF Head(args).arg = SelfName THEN Annotations(Tail(args))
    ELSE <<Head(args).annotation>> \o Annotations(Tail(args))

\* C7 as claimed: a special method with a tuple entry in BUILTINS and no
\* documentation is synthesized, and the emitted parameter types and return
\* type are those of the entry. Stated for a class not named *Error* and a
\* real signature that has the entry's number of parameters, none with a
\* default.
C7_BuiltinFallback ==
    LET entry == BUILTINS_get(callable.name) IN
    (/\ phase = "stubbed"
     /\ entry.kind = "tuple"
     /\ ~callable.def.doc.present
     /\ ~Exempt(callable)
     /\ callable.def.signature.found
     /\ Len(NamesButSelf(RealParameters(callable))) = Len(entry.params)
     /\ \A i \in 1..Len(RealParameters(callable)) :
            RealParameters(callable)[i].default = "empty") =>
        /\ stub.err = NoErr
        /\ Annotations(stub.ast.args.args \o stub.ast.args.kwonlyargs) = entry.params
        /\ stub.ast.returns = entry.ret

\* C12 as claimed: a callable without documentation whose name is not a key
\* of BUILTINS (and that no exemption applies to) makes function_stub raise,
\* whatever its parameters; it is not emitted without a return type.
C12_UndocumentedAborts ==
    (/\ phase = "stubbed"
     /\ ~callable.def.doc.present
     /\ BUILTINS_get(callable.name).kind = "absent"
     /\ ~Exempt(callable)) =>
        /\ stub.err # NoErr
        /\ stub.ast = NoAst

(***************************************************************************)
(* SpecModule: the program run on a reflected module, twice                *)
(***************************************************************************)
LeapName == <<"l", "e", "a", "p">>

UtName == <<"u", "t">>

VersionName == <<"v", "e", "r", "s", "i", "o", "n">>

CenturiesName == <<"c", "e", "n", "t", "u", "r", "i", "e", "s">>

\* a routine whose name sorts before "__init__"
MaxName == <<"M", "A", "X">>

ValueName == <<"v", "a", "l", "u", "e">>

ZeroName == <<"z", "e", "r", "o">>

HifitimeEpoch == ModuleName \o <<".">> \o EpochName

DocText == <<"D", "o", "c", ".">>

\* A parameter without a default.
Plain(name) == Parameter(name, "POSITIONAL_OR_KEYWORD", "empty")

Class(name, doc, signature) == Reflected(name, "class", doc, signature, FALSE)

\* The members a reflected module is made of, by name: classes (still
\* without members) whose names do and do not hold "Error", builtin
\* functions whose documentation is sound, stale and ambiguous, and members
\* the walk skips.
ModuleCatalogue ==
    {Class(DoraStatusName, NoDoc, NoSignature),
     Class(EpochName, NoDoc, NoSignature),
     Class(EpochName, Doc(<<TextLine(DocText), TypeLine(XName, IntName)>>),
           Signature(<<Plain(XName)>>)),
     Class(EpochName, NoDoc, Signature(<<Plain(XName)>>)),
     Class(EpochName, Doc(<<TypeLine(XName, NoSignaturePhrase \o <<" ">> \o OrToken)>>),
           Signature(<<Plain(XName)>>)),
     Class(ParsingErrorName, NoDoc, NoSignature),
     Value(Dunder(<<"n", "a", "m", "e">>), StrName),
     Reflected(LeapName, "builtin",
               Doc(<<TypeLine(ZName, IntName), RtypeLine(IntName)>>),
               Signature(<<>>), TRUE),
     Reflected(NowName, "builtin", Doc(<<RtypeLine(HifitimeEpoch)>>),
               Signature(<<>>), TRUE),
     Reflected(UtName, "builtin", Doc(<<RtypeLine(IntName), RtypeLine(IntName)>>),
               Signature(<<>>), TRUE),
     Value(VersionName, StrName)}

\* The members a reflected class is made of, by name.
ClassCatalogue ==
    {Reflected(AddName, "routine", NoDoc, Signature(<<Plain(XName)>>), FALSE),
     None(Dunder(<<"h", "a", "s", "h">>)),
     Inherited(InitName),
     Reflected(InitName, "routine", NoDoc,
               Signature(<<Plain(XName), Plain(YName)>>), FALSE),
     Reflected(InitName, "routine", Doc(<<TextLine(DocText)>>),
               Signature(<<Plain(XName)>>), FALSE),
     [Value(MatchArgsName, TupleName) EXCEPT !.value = <<XName>>],
     Value(Dunder(<<"m", "o", "d", "u", "l", "e">>), StrName),
     Reflected(CenturiesName, "datadescriptor",
               Doc(<<RtypeLine(IntName), ReturnLine(DocText)>>), NoSignature, FALSE),
     Reflected(NowName, "routine",
               Doc(<<TypeLine(XName, IntName), RtypeLine(HifitimeEpoch)>>),
               Signature(<<Plain(XName)>>), TRUE),
     Reflected(MaxName, "routine", Doc(<<RtypeLine(IntName)>>), Signature(<<>>),
               TRUE),
     Value(ValueName, IntName),
     None(ZeroName)}

Range(seq) == {seq[i] : i \in DOMAIN seq}

RECURSIVE Size(_)
Size(members) ==
    IF members = <<>> THEN 0
    ELSE 1 + Len(Head(members).members) + Size(Tail(members))

\* The output file: absent, or holding the statements of its text.
NoFile == [exists |-> FALSE, text |-> <<>>]

File(text) == [exists |-> TRUE, text |-> text]

OldText == <<[node |-> "Old"]>>

NoResult == [returned |-> FALSE, err |-> NoErr, module |-> NoAst]

\* What the formatter makes of the text it reads.
Format(text) == [i \in DOMAIN text |-> [node |-> "Formatted", of |-> text[i]]]

\* ast.unparse(module): the text, statement by statement
unparse(module) == module.body

InitModule ==
    /\ type_str = <<>>
    /\ types_to_import = {}
    /\ before = {}
    /\ phase = "reflect"
    /\ parsed = NotParsed
    /\ callable = NoCallable
    /\ stub = NoStub
    /\ \E file \in {NoFile, File(OldText)} :
           run = [pass |-> 1, module |-> <<>>, ruff |-> FALSE, file |-> file,
                  file_before |-> file, i |-> 1, classes |-> <<>>,
                  functions |-> <<>>, warnings |-> <<>>, result |-> NoResult,
                  first |-> NoResult, buffer |-> <<>>, formatted |-> FALSE]

\* The reflected module has one more member.
AddMember ==
    /\ phase = "reflect"
    /\ run.pass = 1
    /\ Size(run.module) < MaxMembers
    /\ \E m \in ModuleCatalogue :
           /\ \A i \in DOMAIN run.module : run.module[i].name # m.name
           /\ run' = [run EXCEPT !.module = getmembers(Range(@) \cup {m})]
    /\ UNCHANGED <<type_str, types_to_import, before, phase, parsed, callable, stub>>

\* A class of the reflected module has one more member.
AddClassMember ==
    /\ phase = "reflect"
    /\ run.pass = 1
    /\ Size(run.module) < MaxMembers
    /\ \E c \in DOMAIN run.module, m \in ClassCatalogue :
           /\ run.module[c].kind = "class"
           /\ \A i \in DOMAIN run.module[c].members :
                  run.module[c].members[i].name # m.name
           /\ run' = [run EXCEPT
                          !.module[c].members = getmembers(Range(@) \cup {m})]
    /\ UNCHANGED <<type_str, types_to_import, before, phase, parsed, callable, stub>>

\* parser.parse_args(): argparse.FileType("wt") opens the output file for
\* writing, which creates it or empties it.
ParseArgs ==
    /\ phase = "reflect"
    /\ \E ruff \in BOOLEAN :
           run' = [run EXCEPT !.ruff = ruff, !.file_before = run.file,
                              !.file = File(<<>>), !.buffer = <<>>,
                              !.formatted = FALSE, !.result = NoResult]
    /\ phase' = "parsed"
    /\ UNCHANGED <<type_str, types_to_import, before, parsed, callable, stub>>

\* module_stubs begins: types_to_import = {"typing"}, classes = [],
\* functions = [].
ModuleStubs ==
    /\ phase = "parsed"
    /\ types_to_import' = {TypingName}
    /\ before' = {}
    /\ run' = [run EXCEPT !.i = 1, !.classes = <<>>, !.functions = <<>>,
                          !.warnings = <<>>]
    /\ phase' = "walk"
    /\ UNCHANGED <<type_str, parsed, callable, stub>>

\* One turn of the loop of module_stubs. An exception ends the process: the
\* output file is closed as it is.
WalkMember ==
    /\ phase = "walk"
    /\ run.i <= Len(run.module)
    /\ \E r \in {ModuleMember(run.module[run.i], ModuleName, types_to_import)} :
           /\ types_to_import' = r.imports
           /\ IF r.err # NoErr THEN
                  /\ phase' = "failed"
                  /\ run' = [run EXCEPT
                                 !.warnings = @ \o r.warnings,
                                 !.result = [returned |-> TRUE, err |-> r.err,
                                             module |-> NoAst]]
              ELSE
                  /\ phase' = "walk"
                  /\ run' = [run EXCEPT
                                 !.i = @ + 1,
                                 !.warnings = @ \o r.warnings,
                                 !.classes = IF r.list = "classes"
                                             THEN Append(@, r.ast) ELSE @,
                                 !.functions = IF r.list = "functions"
                                               THEN Append(@, r.ast) ELSE @]
    /\ before' = types_to_import
    /\ UNCHANGED <<type_str, parsed, callable, stub>>

\* module_stubs returns the ast.Module; the set of import paths is iterated
\* in some order and sorted.
Return ==
    /\ phase = "walk"
    /\ run.i > Len(run.module)
    /\ \E order \in Orders(types_to_import) :
           run' = [run EXCEPT
                       !.result = [returned |-> TRUE, err |-> NoErr,
                                   module |-> Module(order, run.classes,
                                                     run.functions)]]
    /\ phase' = "returned"
    /\ UNCHANGED <<type_str, types_to_import, before, parsed, callable, stub>>

\* args.out.write(ast.unparse(...)): the text goes to the buffer of the file
\* object, which hands to the file what does not fit.
Write ==
    /\ phase = "returned"
    /\ LET stub_content == unparse(run.result.module) IN
       \E k \in 0..Len(stub_content) :
           run' = [run EXCEPT
                       !.file = File(SubSeq(stub_content, 1, k)),
                       !.buffer = SubSeq(stub_content, k + 1, Len(stub_content))]
    /\ phase' = "written"
    /\ UNCHANGED <<type_str, types_to_import, before, parsed, callable, stub>>

\* format_with_ruff(args.out.name): the formatter rewrites the file it reads,
\* or exits with a status that subprocess.check_call raises on.
Ruff ==
    /\ phase = "written"
    /\ run.ruff
    /\ ~run.formatted
    /\ \/ /\ run' = [run EXCEPT !.file = File(Format(@.text)), !.formatted = TRUE]
          /\ phase' = "written"
       \/ /\ run' = [run EXCEPT !.file = File(@.text \o run.buffer),
                                !.buffer = <<>>]
          /\ phase' = "failed"
    /\ UNCHANGED <<type_str, types_to_import, before, parsed, callable, stub>>

\* The process ends: the file object is closed, which writes its buffer.
Exit ==
    /\ phase = "written"
    /\ run.ruff => run.formatted
    /\ run' = [run EXCEPT !.file = File(@.text \o run.buffer), !.buffer = <<>>]
    /\ phase' = "done"
    /\ UNCHANGED <<type_str, types_to_import, before, parsed, callable, stub>>

\* The program is run again on the same reflected module.
Rerun ==
    /\ phase \in {"done", "failed"}
    /\ run.pass = 1
    /\ run' = [run EXCEPT !.pass = 2, !.first = run.result, !.result = NoResult]
    /\ phase' = "reflect"
    /\ UNCHANGED <<type_str, types_to_import, before, parsed, callable, stub>>

NextModule ==
    \/ AddMember
    \/ AddClassMember
    \/ ParseArgs
    \/ ModuleStubs
    \/ WalkMember
    \/ Return
    \/ Write
    \/ Ruff
    \/ Exit
    \/ Rerun

SpecModule == InitModule /\ [][NextModule]_vars

(***************************************************************************)
(* Claims about class_stubs, module_stubs and the program                  *)
(***************************************************************************)
\* The members of cls that are a constructor of its own, with parameters and
\* without a ":type" or ":rtype:" line.
UndocumentedConstructors(cls) ==
    {i \in DOMAIN cls.members :
        /\ cls.members[i].name = InitName
        /\ cls.members[i].kind = "routine"
        /\ ~cls.members[i].inherited
        /\ cls.members[i].signature.found
        /\ cls.members[i].signature.parameters # <<>>
        /\ FindAll(cls.members[i].doc.lines, "type") = <<>>
        /\ FindAll(cls.members[i].doc.lines, "rtype") = <<>>}

MissingTypeReasons ==
    {"has no type definition in the function documentation",
     "has no type definition using :rtype:"}

\* The function definitions called name in the body of a class stub.
Defs(class_def, name) ==
    {j \in DOMAIN class_def.body :
        /\ class_def.body[j].node = "FunctionDef"
        /\ class_def.body[j].name = name}

\* C8: for a class whose name holds "Error", with an undocumented
\* constructor of its own that takes undocumented parameters, the walk does
\* not raise for a missing type at that class, and once the class is walked
\* its stub holds the constructor with an empty parameter list and no
\* return type.
C8_ErrorConstructorExempt ==
    \A c \in DOMAIN run.module :
        LET cls == run.module[c] IN
        (/\ cls.kind = "class"
         /\ Contains(cls.name, ErrorName)
         /\ UndocumentedConstructors(cls) # {}) =>
            /\ (phase = "failed" /\ run.i = c) =>
                   run.result.err.reason \notin MissingTypeReasons
            /\ run.i > c =>
                   \E k \in DOMAIN run.classes :
                       /\ run.classes[k].name = cls.name
                       /\ Defs(run.classes[k], InitName) # {}
                       /\ \A j \in Defs(run.classes[k], InitName) :
                              /\ run.classes[k].body[j].args = NoArguments
                              /\ run.classes[k].body[j].returns = NoAst

\* C8 witness: module_stubs returned for a module whose class ParsingError
\* has a constructor (x, y) without documentation, with the stub
\* "def __init__(): ...".
C8_Witness ==
    /\ phase = "returned"
    /\ \E c \in DOMAIN run.module :
           /\ run.module[c].name = ParsingErrorName
           /\ \E i \in UndocumentedConstructors(run.module[c]) :
                  Len(run.module[c].members[i].signature.parameters) = 2
    /\ \E k \in DOMAIN run.classes :
           /\ run.classes[k].name = ParsingErrorName
           /\ run.classes[k].body =
                  <<FunctionDef(InitName, NoArguments, <<Ellipsis>>, <<>>, NoAst)>>

\* C9: the second run of module_stubs over the same reflected module ends as
\* the first did: with the same exception, or with the same module stub,
\* whatever order the import set is iterated in.
C9_SameOutcome ==
    (run.pass = 2 /\ run.result.returned) => run.result = run.first

\* C9 witness: the second run returned a module stub with two imports.
C9_Witness ==
    /\ run.pass = 2
    /\ phase = "returned"
    /\ run.result.returned
    /\ run.result.err = NoErr
    /\ Len(run.result.module.body) > 2
    /\ run.result.module.body[1] = Import(ModuleName)
    /\ run.result.module.body[2] = Import(TypingName)

\* C10 as claimed: when synthesis raises, the output file is as it was
\* before the run.
C10_FailureLeavesOutput ==
    (phase = "failed" /\ run.result.err # NoErr) => run.file = run.file_before

\* The element paths of the declarations of the reflected module:
\* module.member and module.Class.member.
DeclarationPaths ==
    {<<ModuleName, run.module[c].name>> : c \in DOMAIN run.module}
    \cup UNION {{<<ModuleName, run.module[c].name, run.module[c].members[i].name>> :
                    i \in DOMAIN run.module[c].members} : c \in DOMAIN run.module}

\* C11 as claimed: the error that aborts a run names the fully qualified path
\* of the declaration it was raised for.
C11_ErrorNamesDeclaration ==
    (phase = "failed" /\ run.result.err # NoErr) =>
        run.result.err.path \in DeclarationPaths

\* C13 as claimed: the formatter is started only when the output file holds
\* the whole stub text, and no step of the run changes the file once the
\* formatter has returned.
C13_FormatterAfterFlush ==
    [][/\ (phase = "written" /\ run.ruff /\ ~run.formatted
             /\ (run'.formatted \/ phase' = "failed"))
          => (run.buffer = <<>> /\ run.file = File(unparse(run.result.module)))
       /\ (phase = "written" /\ run.formatted) => run'.file = run.file]_vars

(***************************************************************************)
(* The grammar of hint texts, as a generator                               *)
(*   Sequence      := Alternative ('or' Alternative)*                      *)
(*   Alternative   := QualifiedName ('[' Sequence ']')?                    *)
(*   QualifiedName := (letter)+ ('.' (letter)+)*                           *)
(* Each member holds its text (in pieces), the tree the text stands for    *)
(* and the qualified names (as segment sequences) that occur in it.        *)
(***************************************************************************)
NamePieces ==
    {[text |-> IntName, segs |-> <<IntName>>],
     [text |-> TypingList, segs |-> <<TypingName, ListName>>]}

\* The qualified names written with at most n pieces.
RECURSIVE GrammarNames(_)
GrammarNames(n) ==
    IF n < 1 THEN {}
    ELSE {[text |-> <<p.text>>, segs |-> p.segs] : p \in NamePieces}
         \cup {[text |-> <<p.text, <<".">> >> \o q.text, segs |-> p.segs \o q.segs] :
                   p \in NamePieces, q \in GrammarNames(n - 2)}

\* n alternatives give n-1 union nodes, nested to the left.
RECURSIVE LeftNested(_)
LeftNested(alts) ==
    IF Len(alts) = 1 THEN alts[1]
    ELSE BinOp(LeftNested(SubSeq(alts, 1, Len(alts) - 1)), alts[Len(alts)])

\* A qualified name as a reference: its segments, innermost first.
RECURSIVE Reference(_)
Reference(segs) ==
    IF Len(segs) = 1 THEN Name(segs[1])
    ELSE Attribute(Reference(SubSeq(segs, 1, Len(segs) - 1)), segs[Len(segs)])

RECURSIVE GrammarAlternatives(_)
RECURSIVE GrammarSequences(_)

\* The alternatives written with at most n pieces.
GrammarAlternatives(n) ==
    {[text |-> q.text, tree |-> Reference(q.segs), names |-> {q.segs}] :
         q \in GrammarNames(n)}
    \cup UNION {
        {[text  |-> q.text \o << <<"[">> >> \o s.text \o << <<"]">> >>,
          tree  |-> Subscript(Reference(q.segs), LeftNested(s.alts)),
          names |-> {q.segs} \cup s.names] :
             s \in GrammarSequences(n - Len(q.text) - 2)} :
        q \in GrammarNames(n - 3)}

\* The sequences written with at most n pieces, each with the trees of its
\* alternatives in the order of the text.
GrammarSequences(n) ==
    IF n < 1 THEN {}
    ELSE {[text |-> a.text, alts |-> <<a.tree>>, names |-> a.names] :
              a \in GrammarAlternatives(n)}
         \cup UNION {
             {[text  |-> a.text \o <<OrPiece>> \o s.text,
               alts  |-> <<a.tree>> \o s.alts,
               names |-> a.names \cup s.names] :
                  s \in GrammarSequences(n - Len(a.text) - 1)} :
             a \in GrammarAlternatives(n - 2)}

GrammarHints == GrammarSequences(MaxHint)

\* The import path of a qualified name: all segments but the last.
Prefix(segs) == JoinWith(SubSeq(segs, 1, Len(segs) - 1), ".")

Prefixes(names) == {Prefix(segs) : segs \in {q \in names : Len(q) > 1}}

\* The qualified names of a tree: its maximal Name/Attribute chains.
RECURSIVE Chain(_)
Chain(ast) ==
    IF ast.node = "Name" THEN <<ast.id>> ELSE Append(Chain(ast.value), ast.attr)

RECURSIVE AstNames(_)
AstNames(ast) ==
    IF ast.node \in {"Name", "Attribute"} THEN {Chain(ast)}
    ELSE IF ast.node = "Subscript" THEN AstNames(ast.value) \cup AstNames(ast.slice)
    ELSE IF ast.node = "BinOp" THEN AstNames(ast.left) \cup AstNames(ast.right)
    ELSE {}

(***************************************************************************)
(* Claims about parse_type_to_ast                                          *)
(***************************************************************************)
\* C1: a hint text that fits the grammar parses, without error, to the tree
\* that mirrors it: the alternatives in the order of the text folded into a
\* left-nested union, each a plain reference or a reference subscripted by
\* the parse of its bracketed sequence.
C1_MirrorsGrammar ==
    phase = "parsed" =>
        \A g \in GrammarHints :
            g.text = type_str =>
                /\ ~Failed(parsed)
                /\ parsed.ast = LeftNested(g.alts)

\* C1 witness: three alternatives parsed to two union nodes, nested to the left.
C1_Witness ==
    /\ phase = "parsed"
    /\ type_str = <<IntName, OrPiece, TypingList, OrPiece, IntName>>
    /\ parsed.ast = BinOp(BinOp(Name(IntName), Attribute(Name(TypingName), ListName)),
                          Name(IntName))

\* C2: after a successful parse the import set is what it was plus the
\* prefixes of the dotted names of more than one segment in the hint, at any
\* depth; nothing is removed.
C2_ImportsGrowByPrefixes ==
    (phase = "parsed" /\ ~Failed(parsed)) =>
        /\ before \subseteq types_to_import
        /\ types_to_import = before \cup Prefixes(AstNames(parsed.ast))
        /\ \A g \in GrammarHints :
               g.text = type_str => types_to_import = before \cup Prefixes(g.names)

\* C2 witness: "typing.List[int]" parsed on an empty set registers typing.
C2_Witness ==
    /\ phase = "parsed"
    /\ type_str = <<TypingList, <<"[">>, IntName, <<"]">> >>
    /\ before = {}
    /\ types_to_import = {TypingName}

\* The hint of a documentation line, the ", optional" suffix taken off,
\* as a type expression.
HintType(line) ==
    convert_type_from_doc(
        IF EndsWith(line.text, OptionalSuffix)
        THEN SubSeq(line.text, 1, Len(line.text) - Len(OptionalSuffix))
        ELSE line.text, callable.element_path, {}).ast

\* The ":type" lines of the callable that name this parameter.
LinesNaming(c, name) ==
    {i \in DOMAIN TypeLinesOf(c) : TypeLinesOf(c)[i].name = name}

\* The emitted parameters but self, in the order of the signature kinds.
EmittedButSelf(arguments) ==
    SelectSeq(arguments.posonlyargs \o arguments.args \o arguments.kwonlyargs,
              LAMBDA a : a.arg # SelfName)

\* C21: a special method with a tuple entry in BUILTINS and documentation,
\* once synthesized, has for each parameter with a ":type" line the
\* documented type (of the last such line), for each other parameter but self the type the entry
\* holds at its position among the parameters but self, and as return type
\* the ":rtype:" hint when there is one and the entry's return type
\* otherwise.
C21_DocumentedWinsOverTable ==
    LET entry == BUILTINS_get(callable.name)
        names == NamesButSelf(RealParameters(callable))
    IN
    (/\ phase = "stubbed"
     /\ entry.kind = "tuple"
     /\ callable.def.doc.present
     /\ ~Exempt(callable)
     /\ stub.err = NoErr) =>
        LET emitted == EmittedButSelf(stub.ast.args) IN
        /\ {emitted[i].arg : i \in DOMAIN emitted} = Range(names)
        /\ Len(emitted) = Len(names)
        /\ \A i \in DOMAIN emitted :
               LET lines == LinesNaming(callable, emitted[i].arg)
                   position == CHOOSE k \in DOMAIN names : names[k] = emitted[i].arg
               IN  IF lines # {}
                   THEN LET last == CHOOSE l \in lines : \A m \in lines : m <= l
                        IN  emitted[i].annotation =
                                HintType(TypeLinesOf(callable)[last])
                   ELSE /\ position <= Len(entry.params)
                        /\ emitted[i].annotation = entry.params[position]
        /\ stub.ast.returns =
               IF RtypeLinesOf(callable) # <<>>
               THEN HintType(RtypeLinesOf(callable)[1])
               ELSE entry.ret

\* C21 witness: __setattr__(x, y) documented ":type x: int" is emitted with
\* x: int from the documentation, y: typing.Any from the second position of
\* the entry, and the entry's return type.
C21_Witness ==
    /\ phase = "stubbed"
    /\ callable.name = SetattrName
    /\ NamesButSelf(RealParameters(callable)) = <<XName, YName>>
    /\ callable.def.doc = Doc(<<TypeLine(XName, IntName)>>)
    /\ stub.err = NoErr
    /\ Annotations(stub.ast.args.args \o stub.ast.args.kwonlyargs) =
           <<Name(IntName), path_to_type(<<TypingName, AnyName>>)>>
    /\ BUILTINS_get(SetattrName).params[1] # Name(IntName)
    /\ stub.ast.returns = path_to_type(<<NoneName>>)

\* The default an emitted signature attaches to a parameter: defaults
\* belongs to the last positional parameters, kw_defaults to the
\* keyword-only parameters one to one; None stands for no default.
RenderedDefault(arguments, name) ==
    LET positional == arguments.posonlyargs \o arguments.args
        pad == Len(positional) - Len(arguments.defaults)
        at == {i \in DOMAIN positional : positional[i].arg = name}
        kw == {j \in DOMAIN arguments.kwonlyargs : arguments.kwonlyargs[j].arg = name}
    IN  IF at # {} THEN
            LET i == CHOOSE k \in at : TRUE IN
            IF i > pad THEN arguments.defaults[i - pad] ELSE NoAst
        ELSE IF kw # {} THEN arguments.kw_defaults[CHOOSE j \in kw : TRUE]
        ELSE NoAst

\* C22 as claimed: in the signature emitted for a callable that is not
\* exempt, every parameter of the real signature carries the default it has
\* there, and none when it has none, whatever its kind.
C22_DefaultsRendered ==
    (phase = "stubbed" /\ stub.err = NoErr /\ ~Exempt(callable)) =>
        \A i \in DOMAIN RealParameters(callable) :
            LET param == RealParameters(callable)[i] IN
            RenderedDefault(stub.ast.args, param.name) =
                IF param.default # "empty" THEN Constant(param.default) ELSE NoAst

\* The eight arithmetic method names.
ArithmeticMethodNames ==
    {Dunder(op) : op \in {<<"a", "d", "d">>, <<"s", "u", "b">>, <<"d", "i", "v">>,
                          <<"m", "u", "l">>, <<"r", "a", "d", "d">>,
                          <<"r", "s", "u", "b">>, <<"r", "d", "i", "v">>,
                          <<"r", "m", "u", "l">>}}

\* A stub without parameters (not even self) and without return type.
Bare(r) ==
    /\ r.err = NoErr
    /\ r.ast.args = NoArguments
    /\ r.ast.returns = NoAst

\* C23: under each of the eight arithmetic names, a method of a class is
\* synthesized with an empty parameter list and no return annotation
\* whatever its signature holds and whatever its documentation says (stale
\* or missing ":type" lines, hints that do not parse, several ":rtype:"
\* lines). The one failure left is not one of documentation: signature
\* lookup that finds no signature, in a class whose name lacks "Error".
C23_ArithmeticBare ==
    (phase = "stubbed" /\ callable.in_class) =>
        /\ \A n \in ArithmeticMethodNames :
               LET r == function_stub(n, callable.def,
                                      <<callable.element_path[1],
                                        callable.element_path[2], n>>,
                                      before, TRUE)
               IN  IF \/ callable.def.signature.found
                      \/ Contains(callable.element_path[2], ErrorName)
                   THEN Bare(r)
                   ELSE r.err.reason = "no signature found"
        /\ (callable.name \in ArithmeticMethodNames /\ callable.def.signature.found)
               => Bare(stub)

\* C23 witness: __add__(x) of class Epoch, documented with a ":type" line
\* for a parameter z it does not have and a ":rtype:" hint that does not
\* parse, is emitted as "def __add__(): ...".
C23_Witness ==
    /\ phase = "stubbed"
    /\ callable.element_path = <<ModuleName, EpochName, AddName>>
    /\ RealNames(callable) = {XName}
    /\ callable.def.doc = Doc(<<TypeLine(ZName, IntName), RtypeLine(IntOr)>>)
    /\ Bare(stub)

\* A method whose own name holds "Error", in a class whose name does not.
ErrorNamedMember(c) ==
    /\ c.in_class
    /\ Contains(c.name, ErrorName)
    /\ ~Contains(c.element_path[2], ErrorName)

AsOrdinaryMember(c) ==
    function_stub(NowName, c.def,
                  <<c.element_path[1], c.element_path[2], NowName>>,
                  before, c.in_class)

MatchesNoShape(member) ==
    /\ member.kind = "none"
    /\ member.name # InitName
    /\ ~member.inherited
    /\ BUILTINS_get(member.name).kind # "none"
    /\ member.name # MatchArgsName

\* The classes module_stubs hands to class_stubs.
StubbedClasses ==
    {c \in DOMAIN run.module :
        /\ run.module[c].kind = "class"
        /\ ~StartsWith(run.module[c].name, <<"_", "_">>)
        /\ ~StartsWith(run.module[c].name, DoraStatusName)}

\* C15 as claimed: when module_stubs has returned, every class member that
\* fits none of the known shapes has been logged as a warning (and, the run
\* having returned, it did not stop it).
C15_UnknownShapeWarned ==
    (phase = "returned" /\ run.result.err = NoErr) =>
        \A c \in StubbedClasses :
            \A i \in DOMAIN run.module[c].members :
                MatchesNoShape(run.module[c].members[i]) =>
                    <<ModuleName, run.module[c].name, run.module[c].members[i].name>>
                        \in Range(run.warnings)

\* The part of a class body a statement belongs to: 0 the documentation
\* comment, 1 attributes (an annotation without a value, and the comment
\* that follows it), 2 methods, 3 special methods (names starting with "__";
\* the constructor of a class whose name lacks "Error" is a method),
\* 4 constants (an annotation with a value).
Part(cls_name, body, k) ==
    LET statement == body[k] IN
    IF statement.node = "Expr" THEN (IF k = 1 THEN 0 ELSE 1)
    ELSE IF statement.node = "AnnAssign"
    THEN (IF statement.value = NoAst THEN 1 ELSE 4)
    ELSE IF statement.node = "FunctionDef" THEN
        IF /\ StartsWith(statement.name, <<"_", "_">>)
           /\ ~(statement.name = InitName /\ ~ErrorInName(cls_name))
        THEN 3 ELSE 2
    ELSE 5

\* The reflected class a ClassDef was made from.
ReflectedClass(name) ==
    run.module[CHOOSE c \in DOMAIN run.module : run.module[c].name = name]

\* A member class_stubs keeps nothing of.
NotRetained(cls, member) ==
    IF member.name = InitName /\ ~ErrorInName(cls.name) THEN ~cls.signature.found
    ELSE \/ member.inherited
         \/ member.kind = "none"
         \/ BUILTINS_get(member.name).kind = "none"

\* C16: every emitted class body holds its parts in the order documentation
\* comment, attributes, methods, special methods, constants; the
\* constructor, when among the methods, is the first of them; the
\* documentation comment, when there is one, is the first statement; and a
\* class without documentation and without retained members has the body
\* "...", which is the only body the placeholder occurs in.
C16_BodyOrder ==
    \A n \in DOMAIN run.classes :
        LET cls_name == run.classes[n].name
            body == run.classes[n].body
            cls == ReflectedClass(cls_name)
        IN  /\ body # <<>>
            /\ \A i, j \in DOMAIN body :
                   i < j => Part(cls_name, body, i) <= Part(cls_name, body, j)
            /\ \A i, j \in DOMAIN body :
                   (/\ body[i].node = "FunctionDef"
                    /\ body[j].node = "FunctionDef"
                    /\ body[j].name = InitName
                    /\ ~ErrorInName(cls_name)) => j <= i
            /\ (Truthy(cls.doc) /\ build_doc_comment(cls.doc) # NoAst)
                   => body[1] = build_doc_comment(cls.doc)
            /\ (\E i \in DOMAIN body : body[i] = Ellipsis) => body = <<Ellipsis>>
            /\ (/\ ~Truthy(cls.doc)
                /\ \A i \in DOMAIN cls.members : NotRetained(cls, cls.members[i]))
                   => body = <<Ellipsis>>

\* C16 witness: a class whose members are enumerated as MAX, __init__ is
\* emitted with its documentation comment, then the constructor, then MAX.
C16_Witness ==
    /\ phase = "returned"
    /\ Len(run.classes) = 1
    /\ LET body == run.classes[1].body IN
        /\ Len(body) = 3
        /\ body[1].node = "Expr"
        /\ body[2].node = "FunctionDef" /\ body[2].name = InitName
        /\ body[3].node = "FunctionDef" /\ body[3].name = MaxName
    /\ LET members == ReflectedClass(run.classes[1].name).members IN
        /\ Len(members) = 2
        /\ members[1].name = MaxName
        /\ members[2].name = InitName

\* The qualified names the annotations of a parameter list refer to.
ArgNames(args) == UNION {AstNames(args[i].annotation) : i \in DOMAIN args}

ArgumentsNames(arguments) ==
    ArgNames(arguments.posonlyargs) \cup ArgNames(arguments.args)
    \cup ArgNames(arguments.kwonlyargs)
    \cup (IF arguments.vararg = NoAst THEN {} ELSE AstNames(arguments.vararg.annotation))
    \cup (IF arguments.kwarg = NoAst THEN {} ELSE AstNames(arguments.kwarg.annotation))

\* The qualified names a declaration of the stub refers to: in parameter,
\* return, attribute and constant types and in decorators, at any depth.
RECURSIVE StubNames(_)
StubNames(ast) ==
    IF ast.node = "ClassDef" THEN
        UNION {StubNames(ast.body[i]) : i \in DOMAIN ast.body}
        \cup UNION {AstNames(ast.decorator_list[i]) : i \in DOMAIN ast.decorator_list}
    ELSE IF ast.node = "FunctionDef" THEN
        ArgumentsNames(ast.args) \cup AstNames(ast.returns)
        \cup UNION {AstNames(ast.decorator_list[i]) : i \in DOMAIN ast.decorator_list}
    ELSE IF ast.node = "AnnAssign" THEN
        IF ast.annotation.node = "Subscript" /\ ast.annotation.slice.node = "Tuple"
        THEN AstNames(ast.annotation.value)
             \cup UNION {AstNames(ast.annotation.slice.elts[i]) :
                             i \in DOMAIN ast.annotation.slice.elts}
        ELSE AstNames(ast.annotation)
    ELSE {}

\* The statements of the emitted module, by kind.
Kinds(body) == [i \in DOMAIN body |-> body[i].node]

Rank(kind) == IF kind = "Import" THEN 1 ELSE IF kind = "ClassDef" THEN 2 ELSE 3

\* C17: in every emitted module stub the import statements come first, in
\* strictly ascending order (so none twice), then the classes, then the free
\* functions; every module prefix of a dotted reference in an emitted
\* declaration is imported; and typing is imported.
C17_ImportsFirstAndComplete ==
    (phase = "returned" /\ run.result.err = NoErr) =>
        LET body == run.result.module.body
            imported == {body[i].name : i \in {k \in DOMAIN body : body[k].node = "Import"}}
        IN  /\ \A i \in DOMAIN body : body[i].node \in {"Import", "ClassDef", "FunctionDef"}
            /\ \A i, j \in DOMAIN body :
                   i < j => Rank(body[i].node) <= Rank(body[j].node)
            /\ \A i, j \in DOMAIN body :
                   (i < j /\ body[i].node = "Import" /\ body[j].node = "Import")
                       => Less(body[i].name, body[j].name)
            /\ \A i \in DOMAIN body : Prefixes(StubNames(body[i])) \subseteq imported
            /\ TypingName \in imported
            /\ SelectSeq(body, LAMBDA b : b.node = "ClassDef") = run.classes
            /\ SelectSeq(body, LAMBDA b : b.node = "FunctionDef") = run.functions

\* C17 witness: a class and a function that returns hifitime.Epoch give
\* "import hifitime", "import typing", the class, the function.
C17_Witness ==
    /\ phase = "returned"
    /\ run.result.err = NoErr
    /\ Kinds(run.result.module.body) = <<"Import", "Import", "ClassDef", "FunctionDef">>
    /\ run.result.module.body[1] = Import(ModuleName)
    /\ run.result.module.body[2] = Import(TypingName)
    /\ <<ModuleName, EpochName>> \in StubNames(run.result.module.body[4])

\* The classes of the stub whose reflected class has the member __init__
\* (as every class has) and a name without "Error".
ConstructorClasses ==
    {n \in DOMAIN run.classes :
        /\ ~Contains(run.classes[n].name, ErrorName)
        /\ \E i \in DOMAIN ReflectedClass(run.classes[n].name).members :
               ReflectedClass(run.classes[n].name).members[i].name = InitName}

\* C20 as claimed: a class stub is without its constructor exactly when
\* signature lookup on the class finds no signature; any other failure of
\* the constructor's synthesis has aborted the run, so no stub of that class
\* exists.
C20_OmittedOnlyWithoutSignature ==
    \A n \in ConstructorClasses :
        (Defs(run.classes[n], InitName) = {})
            <=> ~ReflectedClass(run.classes[n].name).signature.found

\* The hint texts of the grammar when an alternative may also be empty,
\* written with at most n pieces; empty tells whether one is, at any depth.
RECURSIVE LooseAlternatives(_)
RECURSIVE LooseSequences(_)

LooseAlternatives(n) ==
    IF n < 0 THEN {}
    ELSE {[text |-> <<>>, empty |-> TRUE]}
         \cup {[text |-> q.text, empty |-> FALSE] : q \in GrammarNames(n)}
         \cup UNION {
             {[text  |-> q.text \o << <<"[">> >> \o s.text \o << <<"]">> >>,
               empty |-> s.empty] :
                  s \in LooseSequences(n - Len(q.text) - 2)} :
             q \in GrammarNames(n - 2)}

LooseSequences(n) ==
    IF n < 0 THEN {}
    ELSE LooseAlternatives(n)
         \cup UNION {
             {[text  |-> a.text \o <<OrPiece>> \o s.text,
               empty |-> a.empty \/ s.empty] :
                  s \in LooseSequences(n - Len(a.text) - 1)} :
             a \in LooseAlternatives(n - 1)}

EmptyAlternativeHints == {g.text : g \in {h \in LooseSequences(MaxHint) : h.empty}}

\* C14: a hint with an empty alternative at any nesting depth (a leading,
\* trailing or doubled "or", the empty hint, an empty bracket) is rejected
\* by parse_type_to_ast with a ValueError that names the declaration, and
\* no type expression is produced.
C14_EmptyAlternativeRejected ==
    (phase = "parsed" /\ type_str \in EmptyAlternativeHints) =>
        /\ parsed.err.type = "ValueError"
        /\ parsed.err.path = ElementPath
        /\ parsed.ast = NoAst

\* C14 witness: "typing.List[int or ]", a trailing "or" inside a bracket,
\* rejected as an empty or malformed 'or' group.
C14_Witness ==
    /\ phase = "parsed"
    /\ type_str = <<TypingList, <<"[">>, IntName, OrPiece, <<"]">> >>
    /\ type_str \in EmptyAlternativeHints
    /\ parsed.err.reason = "empty or malformed 'or' group"
    /\ parsed.err.path = ElementPath
    /\ parsed.ast = NoAst

\* The number of pieces p among the first k pieces of the hint.
Count(p, k) == Cardinality({i \in 1..k : type_str[i] = <<p>>})

\* The brackets of the hint do not balance: a "]" with no open group, or a
\* "[" left unclosed.
Unbalanced ==
    \/ \E k \in 1..Len(type_str) : Count("]", k) > Count("[", k)
    \/ Count("[", Len(type_str)) # Count("]", Len(type_str))

\* C18 as claimed: a hint whose brackets do not balance is rejected with the
\* parser's ValueError, and no type expression is produced.
C18_UnbalancedRejected ==
    (phase = "parsed" /\ Unbalanced) =>
        /\ parsed.err.type = "ValueError"
        /\ parsed.ast = NoAst

\* A bracket that holds several comma-separated, non-nested items.
CommaHints ==
    {<<p.text, <<"[">>, q.text, CommaInt, <<"]">> >> : p \in NamePieces, q \in NamePieces}

\* C3 as claimed: such a hint is rejected with a parse error that names the
\* declaration path, and no type expression is produced.
C3_CommaItemsRejected ==
    (phase = "parsed" /\ type_str \in CommaHints) =>
        /\ parsed.err.type = "ValueError"
        /\ parsed.err.path = ElementPath
        /\ parsed.ast = NoAst

====
